---------------------------- MODULE Spec2Model ----------------------------
(***************************************************************************)
(* Flight-fare batch pipeline: validation (src/src/validation.py),         *)
(* transformation (src/src/transformation.py), KPI aggregation             *)
(* (src/src/kpi_calculator.py) and the DAG that chains them                *)
(* (src/dags/flight_pipeline_dag.py, src/src/ingestion.py).                *)
(*                                                                         *)
(* Conventions                                                             *)
(*  - a cell value is a record [k, n, s]: k its kind, n its number, s its  *)
(*    text as a sequence of one-character strings;                         *)
(*  - money is counted in hundredths, so the 0.01 tolerance is 1;          *)
(*  - a DataFrame is [cols, dup, rows]: the column labels, the labels that *)
(*    occur twice (df[label] is then a DataFrame, not a Series), and the   *)
(*    rows, each a function from cols to values.  The index of a frame is  *)
(*    the unique label of each row, here its position.                     *)
(***************************************************************************)
EXTENDS Integers, Sequences, FiniteSets, TLC

VARIABLES
    pc,        \* "ready", then "returned" or "raised"
    df,        \* the caller's dataset
    call,      \* the call made: its function (op) and arguments
    report,    \* the ValidationReport returned
    flagged,   \* validate_data_quality's locals: the labels each check flagged
    raised,    \* the call raised
    out,       \* the dataset returned
    outIsNew,  \* the dataset returned is another object than the caller's
    ret,       \* the scalar returned (a count, a season)
    kpis,      \* the mapping compute_all_kpis returned
    staging,   \* the rows of the MySQL staging table raw_flight_data
    dq_metrics, \* the rows of the PostgreSQL table data_quality_metrics
    postgres   \* the rows of flights_enriched and of the PostgreSQL KPI tables

vars == <<pc, df, call, report, flagged, raised, out, outIsNew, ret, kpis,
          staging, dq_metrics, postgres>>

\* the variables of the stores, which no library call touches
stores == <<staging, dq_metrics, postgres>>

\* flights_enriched and the KPI tables before the load task has run
NoTables ==
    [flights_enriched |-> <<>>, kpi_airline_average |-> <<>>,
     kpi_seasonal_variation |-> <<>>, kpi_popular_routes |-> <<>>]

\* ------------------------------------------------------------------ bounds
MaxRows == 2

\* ------------------------------------------------------------------ values
Null == [k |-> "null", n |-> 0, s |-> <<>>]
Num(x) == [k |-> "num", n |-> x, s |-> <<>>]
Str(t) == [k |-> "str", n |-> 0, s |-> t]
Date(m, d) == [k |-> "date", n |-> 100 * m + d, s |-> <<>>]
Bool(b) == [k |-> "bool", n |-> IF b THEN 1 ELSE 0, s |-> <<>>]

IsNull(v) == v.k = "null"
IsNum(v) == v.k = "num"

Abs(x) == IF x < 0 THEN -x ELSE x

Digits == <<"0", "1", "2", "3", "4", "5", "6", "7", "8", "9">>
IsDigit(c) == \E i \in 1..10 : Digits[i] = c
DigitVal(c) == (CHOOSE i \in 1..10 : Digits[i] = c) - 1

RECURSIVE DigitsVal(_)
DigitsVal(t) ==
    IF t = <<>> THEN 0
    ELSE 10 * DigitsVal(SubSeq(t, 1, Len(t) - 1)) + DigitVal(t[Len(t)])

RECURSIVE NatText(_)
NatText(x) ==
    IF x < 10 THEN <<Digits[x + 1]>>
    ELSE NatText(x \div 10) \o <<Digits[(x % 10) + 1]>>

\* str(value): the text pandas' astype(str) gives a cell
AsStr(v) ==
    CASE v.k = "str" -> v.s
      [] v.k = "null" -> <<"N", "o", "n", "e">>
      [] v.k = "num" -> IF v.n < 0 THEN <<"-">> \o NatText(-v.n) ELSE NatText(v.n)
      [] OTHER -> <<"?">>

\* str.strip(): drop the leading and the trailing blanks
RECURSIVE LStrip(_)
LStrip(t) == IF t # <<>> /\ t[1] = " " THEN LStrip(Tail(t)) ELSE t
RECURSIVE RStrip(_)
RStrip(t) ==
    IF t # <<>> /\ t[Len(t)] = " " THEN RStrip(SubSeq(t, 1, Len(t) - 1)) ELSE t
Strip(t) == RStrip(LStrip(t))

LowerOf(c) ==
    CASE c = "A" -> "a" [] c = "B" -> "b" [] c = "D" -> "d" [] c = "N" -> "n"
      [] c = "X" -> "x" [] c = "E" -> "e" [] c = "O" -> "o" [] OTHER -> c
UpperOf(c) ==
    CASE c = "a" -> "A" [] c = "b" -> "B" [] c = "d" -> "D" [] c = "n" -> "N"
      [] c = "x" -> "X" [] c = "e" -> "E" [] c = "o" -> "O" [] OTHER -> c
IsCased(c) == LowerOf(c) # c \/ UpperOf(c) # c

\* str.lower()
Lower(t) == [i \in 1..Len(t) |-> LowerOf(t[i])]
\* str.title(): a cased letter is upper-cased when it starts a word (follows
\* an uncased character), lower-cased otherwise
Title(t) ==
    [i \in 1..Len(t) |->
        IF i = 1 \/ ~IsCased(t[i - 1]) THEN UpperOf(t[i]) ELSE LowerOf(t[i])]

\* pd.to_numeric(x, errors='coerce') on one cell: a number, or NaN (Null)
ToNumeric(v) ==
    CASE v.k = "num" -> v
      [] v.k = "str" /\ v.s # <<>> /\ (\A i \in 1..Len(v.s) : IsDigit(v.s[i]))
            -> Num(DigitsVal(v.s))
      [] OTHER -> Null

\* float addition with NaN propagation
FareSum(b, t) == IF IsNum(b) /\ IsNum(t) THEN Num(b.n + t.n) ELSE Null

\* ------------------------------------------------------------------ frames
Frame(cols, dup, rows) == [cols |-> cols, dup |-> dup, rows |-> rows]
NRows(f) == Len(f.rows)
Index(f) == 1..Len(f.rows)
EmptyFrame == Frame({}, {}, <<>>)

RECURSIVE SumOver(_, _)
SumOver(S, g) ==
    IF S = {} THEN 0
    ELSE LET x == CHOOSE y \in S : TRUE IN g[x] + SumOver(S \ {x}, g)

\* the union of the index lists of a per-column dictionary
AllOf(d) == UNION {d[c] : c \in DOMAIN d}

\* ------------------------------------------------------------- validation
required_columns ==
    {"airline", "source", "destination", "base_fare", "tax_surcharge",
     "total_fare", "departure_date"}
numeric_cols == {"base_fare", "tax_surcharge", "total_fare"}
string_cols == {"airline", "source", "destination"}
city_cols == {"source", "destination"}
\* the columns check_null_values never looks at
null_exempt_cols ==
    {"id", "source_file", "ingestion_timestamp", "record_status",
     "validation_errors"}
\* tolerance = 0.01, in hundredths
tolerance == 1

\* ValidationReport.__init__
NewReport ==
    [total_records |-> 0, valid_records |-> 0, invalid_records |-> 0,
     flagged_records |-> 0, checks_performed |-> <<>>]

\* ValidationReport.add_check
add_check(r, check_name, check_type, passed, failed, error_message) ==
    [r EXCEPT !.checks_performed =
        Append(@, [check_name |-> check_name, check_type |-> check_type,
                   records_passed |-> passed, records_failed |-> failed,
                   error_message |-> error_message])]

\* variant: the percentage divides without looking at total_records
to_dict_unguarded(r) ==
    [total_records |-> r.total_records,
     valid_records |-> r.valid_records,
     invalid_records |-> r.invalid_records,
     flagged_records |-> r.flagged_records,
     validity_percentage |-> [num |-> r.valid_records * 100, den |-> r.total_records],
     checks_performed |-> r.checks_performed]

\* ValidationReport.to_dict: validity_percentage is valid / total * 100 for
\* total > 0 and 0 otherwise, kept exact as the fraction num / den
to_dict(r) ==
    [total_records |-> r.total_records,
     valid_records |-> r.valid_records,
     invalid_records |-> r.invalid_records,
     flagged_records |-> r.flagged_records,
     validity_percentage |->
        IF r.total_records > 0
        THEN [num |-> r.valid_records * 100, den |-> r.total_records]
        ELSE [num |-> 0, den |-> 1],
     checks_performed |-> r.checks_performed]

\* variant: departure_date left out of the required set
validate_required_columns_nodate(f) ==
    LET missing_columns == (required_columns \ {"departure_date"}) \ f.cols
    IN  [ok |-> missing_columns = {},
         error_msg |-> IF missing_columns = {} THEN ""
                       ELSE "Missing required columns"]

validate_required_columns(f) ==
    LET missing_columns == required_columns \ f.cols
    IN  [ok |-> missing_columns = {},
         error_msg |-> IF missing_columns = {} THEN ""
                       ELSE "Missing required columns"]

\* validate_data_types: per column the labels of the invalid rows.  It has no
\* try: pd.to_numeric of a doubled column (a DataFrame) raises TypeError, and
\* a doubled string column has no .str accessor (AttributeError).
validate_data_types(f) ==
    LET checked == (numeric_cols \cup string_cols) \cap f.cols
    IN  IF checked \cap f.dup # {}
        THEN [raised |-> TRUE, value |-> <<>>]
        ELSE [raised |-> FALSE,
              value |->
                [c \in numeric_cols \cup string_cols |->
                    IF c \notin f.cols THEN {}
                    ELSE IF c \in numeric_cols
                    THEN {i \in Index(f) :
                            IsNull(ToNumeric(f.rows[i][c])) /\ ~IsNull(f.rows[i][c])}
                    ELSE {i \in Index(f) : Strip(AsStr(f.rows[i][c])) = <<>>}]]

\* variant: the caller's allow_null_cols is not consulted
check_null_values_noallow(f, allow_null_cols) ==
    LET looked == {c \in f.cols : c \notin null_exempt_cols}
        null_rows(c) ==
            IF c \in f.dup THEN Index(f)
            ELSE {i \in Index(f) : IsNull(f.rows[i][c])}
    IN  [c \in {x \in looked : null_rows(x) # {}} |-> null_rows(c)]

\* check_null_values: a dictionary that holds only the columns with a null.
\* df[df[col].isna()] of a doubled column masks cell-wise and keeps every row.
check_null_values(f, allow_null_cols) ==
    LET looked == {c \in f.cols : c \notin allow_null_cols /\ c \notin null_exempt_cols}
        null_rows(c) ==
            IF c \in f.dup THEN Index(f)
            ELSE {i \in Index(f) : IsNull(f.rows[i][c])}
    IN  [c \in {x \in looked : null_rows(x) # {}} |-> null_rows(c)]

\* variant: a fare of zero counts as negative
check_negative_values_le(f) ==
    LET neg_rows(c) ==
            IF c \in f.dup THEN {}
            ELSE {i \in Index(f) :
                    LET x == ToNumeric(f.rows[i][c]) IN IsNum(x) /\ x.n <= 0}
    IN  [c \in {x \in numeric_cols \cap f.cols : neg_rows(x) # {}} |-> neg_rows(c)]

\* check_negative_values: the try is per column, a column that raises is skipped
check_negative_values(f) ==
    LET neg_rows(c) ==
            IF c \in f.dup THEN {}
            ELSE {i \in Index(f) :
                    LET x == ToNumeric(f.rows[i][c]) IN IsNum(x) /\ x.n < 0}
    IN  [c \in {x \in numeric_cols \cap f.cols : neg_rows(x) # {}} |-> neg_rows(c)]

\* `if valid_cities:` is false for None and for an empty list
WhitelistActive(vc) == vc.given /\ vc.cities # <<>>

\* check_valid_cities
check_valid_cities(f, vc) ==
    IF ~WhitelistActive(vc) THEN <<>>
    ELSE
    LET valid_cities_set == {Lower(vc.cities[j]) : j \in 1..Len(vc.cities)}
        invalid_rows(c) ==
            {i \in Index(f) : Lower(AsStr(f.rows[i][c])) \notin valid_cities_set}
    IN  [c \in {x \in city_cols \cap f.cols : invalid_rows(x) # {}} |-> invalid_rows(c)]

\* variant: a difference equal to the tolerance is inconsistent
check_fare_consistency_ge(f) ==
    IF ~(numeric_cols \subseteq f.cols) THEN {}
    ELSE IF numeric_cols \cap f.dup # {} THEN {}
    ELSE {i \in Index(f) :
            LET base == ToNumeric(f.rows[i]["base_fare"])
                tax == ToNumeric(f.rows[i]["tax_surcharge"])
                total == ToNumeric(f.rows[i]["total_fare"])
            IN  IsNum(base) /\ IsNum(tax) /\ IsNum(total)
                /\ Abs((base.n + tax.n) - total.n) >= tolerance}

\* check_fare_consistency: the whole computation is inside one try whose
\* handler logs and leaves inconsistent_rows empty
check_fare_consistency(f) ==
    IF ~(numeric_cols \subseteq f.cols) THEN {}
    ELSE IF numeric_cols \cap f.dup # {} THEN {}
    ELSE {i \in Index(f) :
            LET base == ToNumeric(f.rows[i]["base_fare"])
                tax == ToNumeric(f.rows[i]["tax_surcharge"])
                total == ToNumeric(f.rows[i]["total_fare"])
            IN  IsNum(base) /\ IsNum(tax) /\ IsNum(total)
                /\ Abs((base.n + tax.n) - total.n) > tolerance}

\* variant: the labels collected in a list, a row counted once per check
all_invalid_count_sum(by_type, nulls, negs, cities, fare) ==
    Cardinality(AllOf(by_type)) + Cardinality(AllOf(nulls)) + Cardinality(AllOf(negs))
    + Cardinality(AllOf(cities)) + Cardinality(fare)

\* variant: the city check's labels left out of the union
all_invalid_count_nocity(by_type, nulls, negs, cities, fare) ==
    Cardinality(AllOf(by_type) \cup AllOf(nulls) \cup AllOf(negs) \cup fare)

\* len(all_invalid_indices): the union of the five checks' labels
all_invalid_count(by_type, nulls, negs, cities, fare) ==
    Cardinality(AllOf(by_type) \cup AllOf(nulls) \cup AllOf(negs)
                \cup AllOf(cities) \cup fare)

NoFlags == [by_type |-> {}, nulls |-> {}, negs |-> {}, cities |-> {}, fare |-> {}]

\* validate_data_quality: [raised, report, flags]; flags are the labels each
\* check returned (the function's locals)
validate_data_quality(f, vc) ==
    LET r0 == [NewReport EXCEPT !.total_records = NRows(f)]
        n == r0.total_records
        colcheck == validate_required_columns(f)
        types == validate_data_types(f)
        invalid_by_type == types.value
        type_invalid_count ==
            SumOver(DOMAIN invalid_by_type,
                    [c \in DOMAIN invalid_by_type |-> Cardinality(invalid_by_type[c])])
        null_locations == check_null_values(f, {})
        null_invalid_count == Cardinality(AllOf(null_locations))
        negative_locations == check_negative_values(f)
        negative_invalid_count == Cardinality(AllOf(negative_locations))
        invalid_cities == check_valid_cities(f, vc)
        city_invalid_count == Cardinality(AllOf(invalid_cities))
        fare_inconsistent == check_fare_consistency(f)
        r1 == add_check(r0, "Data Types", "TYPE_CHECK",
                        n - type_invalid_count, type_invalid_count, "None")
        r2 == add_check(r1, "Null Values", "NULLS",
                        n - null_invalid_count, null_invalid_count, "None")
        r3 == add_check(r2, "Negative Values", "BUSINESS_RULE",
                        n - negative_invalid_count, negative_invalid_count, "None")
        r4 == add_check(r3, "Valid Cities", "BUSINESS_RULE",
                        n - city_invalid_count, city_invalid_count, "None")
        r5 == add_check(r4, "Fare Consistency", "BUSINESS_RULE",
                        n - Cardinality(fare_inconsistent),
                        Cardinality(fare_inconsistent), "None")
        invalid == all_invalid_count(invalid_by_type, null_locations,
                                     negative_locations, invalid_cities,
                                     fare_inconsistent)
    IN  IF ~colcheck.ok
        THEN [raised |-> FALSE,
              report |-> [add_check(r0, "Required Columns", "COLUMN_VALIDATION",
                                    0, n, colcheck.error_msg)
                            EXCEPT !.invalid_records = n],
              flags |-> NoFlags]
        ELSE IF types.raised
        THEN [raised |-> TRUE, report |-> NewReport, flags |-> NoFlags]
        ELSE [raised |-> FALSE,
              report |-> [r5 EXCEPT !.invalid_records = invalid,
                                    !.valid_records = n - invalid],
              flags |-> [by_type |-> AllOf(invalid_by_type),
                         nulls |-> AllOf(null_locations),
                         negs |-> AllOf(negative_locations),
                         cities |-> AllOf(invalid_cities),
                         fare |-> fare_inconsistent]]

\* --------------------------------------------------------- transformation
\* a text kept as one token (a season name)
Token(x) == Str(<<x>>)

\* objects: the heap is a sequence of frames, a reference is a position in it
\* variant: no copy, the local name stays bound to the caller's object
DfCopy_alias(h, ref) == [heap |-> h, ref |-> ref]

\* df.copy(): a new object with the same content
DfCopy(h, ref) == [heap |-> Append(h, h[ref]), ref |-> Len(h) + 1]

\* the in-place writes df[col] = ..., df.loc[mask, col] = ...
Store(h, ref, f) == [h EXCEPT ![ref] = f]

\* df[col] = values: the column is added when it is new
WithCol(f, col, values) ==
    Frame(f.cols \cup {col}, f.dup,
          [i \in Index(f) |->
              [c \in f.cols \cup {col} |-> IF c = col THEN values[i] ELSE f.rows[i][c]]])

\* variant: a difference equal to the tolerance counts as incorrect
IncorrectTotal_ge(base, tax, total) ==
    IsNum(base) /\ IsNum(tax) /\ IsNum(total)
    /\ Abs((base.n + tax.n) - total.n) >= tolerance

\* incorrect = abs((base + tax) - total) > tolerance; a comparison with NaN is False
IncorrectTotal(base, tax, total) ==
    IsNum(base) /\ IsNum(tax) /\ IsNum(total)
    /\ Abs((base.n + tax.n) - total.n) > tolerance

\* variant: the missing totals are not filled
ReconciledTotal_nofill(r) ==
    LET base == ToNumeric(r["base_fare"])
        tax == ToNumeric(r["tax_surcharge"])
        total == ToNumeric(r["total_fare"])
    IN  IF IncorrectTotal(base, tax, total) THEN FareSum(base, tax) ELSE r["total_fare"]

\* the total_fare cell of one row after the two df.loc writes: overwritten
\* where incorrect, then filled where the cell isna()
ReconciledTotal(r) ==
    LET base == ToNumeric(r["base_fare"])
        tax == ToNumeric(r["tax_surcharge"])
        total == ToNumeric(r["total_fare"])
        verified == IF IncorrectTotal(base, tax, total)
                    THEN FareSum(base, tax) ELSE r["total_fare"]
    IN  IF IsNull(verified) THEN FareSum(base, tax) ELSE verified

\* calculate_total_fare: [heap, ref].  Everything after the copy is in one
\* try: a KeyError (no base_fare / tax_surcharge column) or a TypeError
\* (pd.to_numeric of a doubled column) is logged and the copy returned as is.
calculate_total_fare(h, ref) ==
    LET c == DfCopy(h, ref)
        f == c.heap[c.ref]
        fails == \/ ~({"base_fare", "tax_surcharge"} \subseteq f.cols)
                 \/ (numeric_cols \cap f.cols) \cap f.dup # {}
    IN  IF fails THEN c
        ELSE IF "total_fare" \in f.cols
        THEN [c EXCEPT !.heap = Store(c.heap, c.ref,
                WithCol(f, "total_fare", [i \in Index(f) |-> ReconciledTotal(f.rows[i])]))]
        ELSE [c EXCEPT !.heap = Store(c.heap, c.ref,
                WithCol(f, "total_fare",
                    [i \in Index(f) |->
                        FareSum(ToNumeric(f.rows[i]["base_fare"]),
                                ToNumeric(f.rows[i]["tax_surcharge"]))]))]

\* dates: a date is Date(month, day), the year plays no part
DaysIn(m) == IF m = 2 THEN 29 ELSE IF m \in {4, 6, 9, 11} THEN 30 ELSE 31
MonthOf(v) == v.n \div 100
TwoDigits(x) == <<Digits[(x \div 10) + 1], Digits[(x % 10) + 1]>>
DateText(m, d) == TwoDigits(m) \o <<"-">> \o TwoDigits(d)
NatStrings == {<<>>, <<"N", "a", "T">>, <<"n", "a", "n">>}

\* pd.to_datetime of one text "MM-DD": [res, date] with res "date", "nat" (an
\* empty text or a NaT/nan text parses to NaT) or "raise"
ParseDatetime(t) ==
    IF t \in NatStrings THEN [res |-> "nat", date |-> Null]
    ELSE IF /\ Len(t) = 5 /\ t[3] = "-"
            /\ \A i \in {1, 2, 4, 5} : IsDigit(t[i])
    THEN LET m == DigitsVal(SubSeq(t, 1, 2))
             d == DigitsVal(SubSeq(t, 4, 5))
         IN  IF m \in 1..12 /\ d \in 1..DaysIn(m)
             THEN [res |-> "date", date |-> Date(m, d)]
             ELSE [res |-> "raise", date |-> Null]
    ELSE [res |-> "raise", date |-> Null]

\* pd.to_datetime of one cell of a column of texts, dates and nulls
ToDatetime(v) ==
    CASE v.k = "null" -> [res |-> "nat", date |-> Null]
      [] v.k = "date" -> [res |-> "date", date |-> v]
      [] v.k = "str" -> ParseDatetime(v.s)
      [] OTHER -> [res |-> "raise", date |-> Null]

SeasonOfMonth(month) ==
    IF month = 5 THEN "PEAK_EID"
    ELSE IF month = 7 THEN "PEAK_EID"
    ELSE IF month \in {12, 1} THEN "PEAK_WINTER"
    ELSE "NON_PEAK"

\* classify_season: pd.isna first; a text goes through pd.to_datetime, whose
\* NaT has month nan, equal to no month; any exception gives UNKNOWN
classify_season(date_obj) ==
    IF IsNull(date_obj) THEN "UNKNOWN"
    ELSE IF date_obj.k = "str"
    THEN LET p == ParseDatetime(date_obj.s)
         IN  CASE p.res = "raise" -> "UNKNOWN"
               [] p.res = "nat" -> "NON_PEAK"
               [] OTHER -> SeasonOfMonth(MonthOf(p.date))
    ELSE IF date_obj.k = "date" THEN SeasonOfMonth(MonthOf(date_obj))
    ELSE "UNKNOWN"

NoDateCol == "None"

\* the only member of a one-element set: { e(x) : x \in {v} } evaluates v once
TheOne(S) == CHOOSE x \in S : TRUE

\* steps 2-7 of clean_and_enrich on the frame calculate_total_fare returned.
\* The steps write different columns, so each cell is given by its column:
\*   2. string columns: astype(str).str.strip(), then .str.title()
\*   3. numeric columns: pd.to_numeric(errors='coerce')
\*   4. flight_date: kept when present; else the date part of
\*      pd.to_datetime(df[extract_date_col]), which raises for the whole
\*      column when one value cannot be parsed (flight_date = None then);
\*      else today's date
\*   5. season = classify_season(flight_date)
\*   6. is_valid = True unless the column exists
\*   7. loaded_timestamp = now
\* extract_date_col is not one of the six cleaned columns.
EnrichFrame(f, extract_date_col, now) ==
    LET extract == extract_date_col # NoDateCol /\ extract_date_col \in f.cols
        parse_raises ==
            extract /\ \E i \in Index(f) : ToDatetime(f.rows[i][extract_date_col]).res = "raise"
        flight_date(i) ==
            IF "flight_date" \in f.cols THEN f.rows[i]["flight_date"]
            ELSE IF extract
            THEN IF parse_raises THEN Null
                 ELSE ToDatetime(f.rows[i][extract_date_col]).date
            ELSE now
        newcols == f.cols \cup {"flight_date", "season", "is_valid", "loaded_timestamp"}
    IN  Frame(newcols, f.dup,
            [i \in Index(f) |->
                [c \in newcols |->
                    IF c = "loaded_timestamp" THEN now
                    ELSE IF c = "is_valid"
                    THEN IF c \in f.cols THEN f.rows[i][c] ELSE Bool(TRUE)
                    ELSE IF c = "season" THEN Token(classify_season(flight_date(i)))
                    ELSE IF c = "flight_date" THEN flight_date(i)
                    ELSE IF c \in numeric_cols THEN ToNumeric(f.rows[i][c])
                    ELSE IF c \in string_cols THEN Str(Title(Strip(AsStr(f.rows[i][c]))))
                    ELSE f.rows[i][c]]])

\* clean_and_enrich: [raised, heap, ref].  now is the processing date, read
\* for flight_date (datetime.now().date()) and loaded_timestamp.  Steps 2 and
\* 3 are outside any try: a doubled cleaned column raises.
clean_and_enrich(h, ref, extract_date_col, now) ==
    TheOne({
        IF (numeric_cols \cup string_cols) \cap c.heap[c.ref].cols
                \cap c.heap[c.ref].dup # {}
        THEN [raised |-> TRUE, heap |-> c.heap, ref |-> c.ref]
        ELSE [raised |-> FALSE,
              heap |-> Store(c.heap, c.ref,
                             EnrichFrame(c.heap[c.ref], extract_date_col, now)),
              ref |-> c.ref] :
        c \in {calculate_total_fare(DfCopy(h, ref).heap, DfCopy(h, ref).ref)}})

\* the rows of f whose labels are in K, in order
RECURSIVE KeepFrom(_, _, _)
KeepFrom(rows, K, i) ==
    IF i > Len(rows) THEN <<>>
    ELSE (IF i \in K THEN <<rows[i]>> ELSE <<>>) \o KeepFrom(rows, K, i + 1)
KeepRows(f, K) == Frame(f.cols, f.dup, KeepFrom(f.rows, K, 1))

default_subset == {"airline", "source", "destination", "base_fare", "tax_surcharge"}
NoSubset == {}

\* variant: keep='last' keeps the first row of a key
remove_duplicates_lastasfirst(h, ref, subset, keep) ==
    LET c == DfCopy(h, ref)
        f == c.heap[c.ref]
        key == IF subset = NoSubset THEN default_subset ELSE subset
        same(i, j) == \A k \in key : f.rows[i][k] = f.rows[j][k]
        kept == {i \in Index(f) :
                    CASE keep \in {"first", "last"} ->
                            ~\E j \in Index(f) : j < i /\ same(i, j)
                      [] OTHER -> ~\E j \in Index(f) : j # i /\ same(i, j)}
    IN  IF ~(key \subseteq f.cols)
        THEN [raised |-> TRUE, heap |-> c.heap, ref |-> c.ref, count |-> 0]
        ELSE TheOne({[raised |-> FALSE, heap |-> Append(c.heap, g),
                      ref |-> Len(c.heap) + 1, count |-> NRows(f) - NRows(g)] :
                     g \in {KeepRows(f, kept)}})

\* remove_duplicates: [raised, heap, ref, count]; keep is "first", "last" or
\* "none" (False).  drop_duplicates returns a new object and raises KeyError
\* for a subset column the frame does not have.
remove_duplicates(h, ref, subset, keep) ==
    LET c == DfCopy(h, ref)
        f == c.heap[c.ref]
        key == IF subset = NoSubset THEN default_subset ELSE subset
        same(i, j) == \A k \in key : f.rows[i][k] = f.rows[j][k]
        kept == {i \in Index(f) :
                    CASE keep = "first" -> ~\E j \in Index(f) : j < i /\ same(i, j)
                      [] keep = "last" -> ~\E j \in Index(f) : j > i /\ same(i, j)
                      [] OTHER -> ~\E j \in Index(f) : j # i /\ same(i, j)}
    IN  IF ~(key \subseteq f.cols)
        THEN [raised |-> TRUE, heap |-> c.heap, ref |-> c.ref, count |-> 0]
        ELSE TheOne({[raised |-> FALSE, heap |-> Append(c.heap, g),
                      ref |-> Len(c.heap) + 1, count |-> NRows(f) - NRows(g)] :
                     g \in {KeepRows(f, kept)}})

RECURSIVE SortedNumbers(_)
SortedNumbers(q) ==
    IF q = <<>> THEN <<>>
    ELSE LET m == CHOOSE i \in 1..Len(q) : \A j \in 1..Len(q) : q[i] <= q[j]
         IN  <<q[m]>> \o SortedNumbers(SubSeq(q, 1, m - 1) \o SubSeq(q, m + 1, Len(q)))

\* Series.median() of the numbers of a column (NaN skipped); the half of an
\* odd sum of the two middle values is cut to the hundredth
ColumnNumbers(f, col) ==
    LET K == {i \in Index(f) : IsNum(ToNumeric(f.rows[i][col]))}
        picked == KeepFrom(f.rows, K, 1)
    IN  [i \in 1..Len(picked) |-> ToNumeric(picked[i][col]).n]
Median(q) ==
    LET t == SortedNumbers(q)
        n == Len(t)
    IN  IF n % 2 = 1 THEN t[(n + 1) \div 2]
        ELSE (t[n \div 2] + t[(n \div 2) + 1]) \div 2

HasNullIn(r, cols) == \E c \in cols : IsNull(r[c])

\* strategy 'median', first part: each numeric column that has a median is
\* coerced and its missing cells filled with the median
ImputeMedian(f) ==
    Frame(f.cols, f.dup,
        [i \in Index(f) |->
            [col \in f.cols |->
                IF col \in numeric_cols /\ ColumnNumbers(f, col) # <<>>
                THEN IF IsNum(ToNumeric(f.rows[i][col]))
                     THEN ToNumeric(f.rows[i][col])
                     ELSE Num(Median(ColumnNumbers(f, col)))
                ELSE f.rows[i][col]]])

\* df.fillna(method='ffill'): a missing cell takes the last value above it
ForwardFill(f) ==
    Frame(f.cols, f.dup,
        [i \in Index(f) |->
            [col \in f.cols |->
                IF ~IsNull(f.rows[i][col]) THEN f.rows[i][col]
                ELSE LET prev == {j \in 1..(i - 1) : ~IsNull(f.rows[j][col])}
                     IN  IF prev = {} THEN Null
                         ELSE f.rows[CHOOSE j \in prev : \A k \in prev : k <= j][col]]])

\* df.dropna(subset=cols)
DropNa(f, cols) == KeepRows(f, {i \in Index(f) : ~HasNullIn(f.rows[i], cols)})

\* handle_missing_values: [raised, heap, ref, count].  dropna raises KeyError
\* for a subset column the frame does not have.
handle_missing_values(h, ref, strategy) ==
    LET c == DfCopy(h, ref)
        f == c.heap[c.ref]
        initial_count == NRows(f)
        required_cols == {"airline", "source", "destination", "base_fare", "tax_surcharge"}
        cat_cols == {"airline", "source", "destination"}
    IN  CASE strategy = "drop" ->
                IF ~(required_cols \subseteq f.cols)
                THEN [raised |-> TRUE, heap |-> c.heap, ref |-> c.ref, count |-> 0]
                ELSE TheOne({[raised |-> FALSE, heap |-> Append(c.heap, g),
                              ref |-> Len(c.heap) + 1,
                              count |-> initial_count - NRows(g)] :
                             g \in {DropNa(f, required_cols)}})
          [] strategy = "median" ->
                IF (numeric_cols \cap f.cols) \cap f.dup # {}
                THEN [raised |-> TRUE, heap |-> c.heap, ref |-> c.ref, count |-> 0]
                ELSE TheOne({
                        IF ~(cat_cols \subseteq f.cols)
                        THEN [raised |-> TRUE, heap |-> Store(c.heap, c.ref, imputed),
                              ref |-> c.ref, count |-> 0]
                        ELSE TheOne({[raised |-> FALSE,
                                      heap |-> Append(Store(c.heap, c.ref, imputed), g),
                                      ref |-> Len(c.heap) + 1,
                                      count |-> NRows(imputed) - NRows(g)] :
                                     g \in {DropNa(imputed, cat_cols)}}) :
                        imputed \in {ImputeMedian(f)}})
          [] strategy = "forward_fill" ->
                TheOne({[raised |-> FALSE, heap |-> Append(c.heap, g),
                         ref |-> Len(c.heap) + 1,
                         count |-> initial_count
                                   - Cardinality({i \in Index(g) : HasNullIn(g.rows[i], g.cols)})] :
                        g \in {ForwardFill(f)}})
          [] OTHER ->
                [raised |-> FALSE, heap |-> c.heap, ref |-> c.ref, count |-> 0]

\* ------------------------------------------------------------------- KPIs
\* the characters in code-point order, which is the order groupby sorts by
CharOrder ==
    <<" ", "-", "0", "1", "2", "3", "4", "5", "6", "7", "8", "9",
      "A", "B", "C", "D", "E", "F", "G", "H", "I", "J", "K", "L", "M",
      "N", "O", "P", "Q", "R", "S", "T", "U", "V", "W", "X", "Y", "Z", "_",
      "a", "b", "c", "d", "e", "f", "g", "h", "i", "j", "k", "l", "m",
      "n", "o", "p", "q", "r", "s", "t", "u", "v", "w", "x", "y", "z">>
CharRank(c) == CHOOSE i \in DOMAIN CharOrder : CharOrder[i] = c

RECURSIVE TextLess(_, _)
TextLess(s, t) ==
    IF t = <<>> THEN FALSE
    ELSE IF s = <<>> THEN TRUE
    ELSE IF s[1] = t[1] THEN TextLess(Tail(s), Tail(t))
    ELSE CharRank(s[1]) < CharRank(t[1])

\* a group key is the tuple of the grouping cells of a row
RECURSIVE KeyLess(_, _)
KeyLess(a, b) ==
    IF a = <<>> THEN FALSE
    ELSE IF a[1] = b[1] THEN KeyLess(Tail(a), Tail(b))
    ELSE TextLess(a[1].s, b[1].s)

KeyOf(r, by) == [i \in DOMAIN by |-> r[by[i]]]

\* groupby(by): rows with a missing key cell belong to no group
GroupKeys(f, by) ==
    {KeyOf(f.rows[i], by) : i \in Index(f)}
        \ {k \in {KeyOf(f.rows[i], by) : i \in Index(f)} :
              \E j \in DOMAIN k : IsNull(k[j])}

\* groupby(by, sort=True): the keys in ascending order
RECURSIVE SortedKeys(_)
SortedKeys(K) ==
    IF K = {} THEN <<>>
    ELSE LET m == CHOOSE x \in K : \A y \in K \ {x} : KeyLess(x, y)
         IN  <<m>> \o SortedKeys(K \ {m})

Group(f, by, key) == {i \in Index(f) : KeyOf(f.rows[i], by) = key}

\* round(sum / count, 2) on hundredths: to the nearest, a half to the even
RoundDiv(s, c) ==
    LET q == s \div c
        r == s - q * c
    IN  IF 2 * r > c \/ (2 * r = c /\ q % 2 = 1) THEN q + 1 ELSE q

\* how many cells of the column are numbers once coerced ('count')
CountOf(f, idx, col) ==
    Cardinality({i \in idx : IsNum(ToNumeric(f.rows[i][col]))})

\* the mean of the coerced column over the rows idx, NaN skipped, rounded
MeanOf(f, idx, col) ==
    LET nums == {i \in idx : IsNum(ToNumeric(f.rows[i][col]))}
    IN  IF nums = {} THEN Null
        ELSE Num(RoundDiv(SumOver(nums, [i \in nums |-> ToNumeric(f.rows[i][col]).n]),
                          Cardinality(nums)))

RemoveAt(q, i) == SubSeq(q, 1, i - 1) \o SubSeq(q, i + 1, Len(q))

\* variant: the group table is left in key order
SortDesc_unsorted(rows, col) == rows

\* sort_values(col, ascending=False): equal values keep their order (the
\* tables here are shorter than the 16 rows from which the sort stops being
\* stable), NaN goes last
RECURSIVE SortDesc(_, _)
SortDesc(rows, col) ==
    IF rows = <<>> THEN <<>>
    ELSE LET nn == {i \in DOMAIN rows : IsNum(rows[i][col])}
             pick == IF nn = {} THEN 1
                     ELSE CHOOSE i \in nn : \A j \in nn :
                              \/ rows[j][col].n < rows[i][col].n
                              \/ rows[j][col].n = rows[i][col].n /\ i <= j
         IN  <<rows[pick]>> \o SortDesc(RemoveAt(rows, pick), col)

\* DataFrame.head(n)
HeadRows(rows, n) ==
    IF n >= 0 THEN SubSeq(rows, 1, IF n < Len(rows) THEN n ELSE Len(rows))
    ELSE SubSeq(rows, 1, IF Len(rows) + n > 0 THEN Len(rows) + n ELSE 0)

\* a column read or grouped on raises when the label is missing or doubled
Unreadable(f, cols) == ~(cols \subseteq f.cols) \/ cols \cap f.dup # {}

\* except Exception: return pd.DataFrame()
OrEmpty(r) == IF r.raised THEN [raised |-> FALSE, value |-> EmptyFrame] ELSE r

\* the try block of compute_airline_average_fare
airline_average_fare_try(f, now) ==
    IF Unreadable(f, {"base_fare", "tax_surcharge", "total_fare", "airline"})
    THEN [raised |-> TRUE, value |-> EmptyFrame]
    ELSE LET keys == SortedKeys(GroupKeys(f, <<"airline">>))
             kpi == [j \in DOMAIN keys |->
                       TheOne({[airline |-> keys[j][1],
                                avg_base_fare |-> MeanOf(f, g, "base_fare"),
                                avg_tax_surcharge |-> MeanOf(f, g, "tax_surcharge"),
                                avg_total_fare |-> MeanOf(f, g, "total_fare"),
                                booking_count |-> Num(Cardinality(g)),
                                computed_at |-> now]
                               : g \in {Group(f, <<"airline">>, keys[j])}})]
         IN  [raised |-> FALSE,
              value |-> Frame({"airline", "avg_base_fare", "avg_tax_surcharge",
                               "avg_total_fare", "booking_count", "computed_at"},
                              {}, SortDesc(kpi, "avg_total_fare"))]

compute_airline_average_fare(f, now) == OrEmpty(airline_average_fare_try(f, now))

\* the try block of compute_seasonal_variation.  Line 81 reads total_fare,
\* lines 84-89 read season and group on airline; line 93 then assigns a set
\* to a column of a frame that has no index, which pandas refuses whatever the
\* set holds (a non-empty one "cannot be converted to a Series", an empty one
\* is "unordered"), so the block raises on every dataset
seasonal_variation_try(f, now) == [raised |-> TRUE, value |-> EmptyFrame]

\* compute_seasonal_variation with its handler removed
compute_seasonal_variation_unguarded(f, now) == seasonal_variation_try(f, now)

compute_seasonal_variation(f, now) == OrEmpty(seasonal_variation_try(f, now))

\* the try block of compute_popular_routes
popular_routes_try(f, top_n, now) ==
    IF Unreadable(f, {"total_fare", "source", "destination"})
    THEN [raised |-> TRUE, value |-> EmptyFrame]
    ELSE LET by == <<"source", "destination">>
             keys == SortedKeys(GroupKeys(f, by))
             kpi == [j \in DOMAIN keys |->
                       TheOne({[source |-> keys[j][1],
                                destination |-> keys[j][2],
                                booking_count |-> Num(CountOf(f, g, "total_fare")),
                                avg_fare_on_route |-> MeanOf(f, g, "total_fare")]
                               : g \in {Group(f, by, keys[j])}})]
             ranked == TheOne({[j \in DOMAIN s |->
                                  [c \in DOMAIN s[j] \cup {"route_rank", "computed_at"} |->
                                      CASE c = "route_rank" -> Num(j)
                                        [] c = "computed_at" -> now
                                        [] OTHER -> s[j][c]]]
                               : s \in {SortDesc(kpi, "booking_count")}})
         IN  [raised |-> FALSE,
              value |-> Frame({"source", "destination", "booking_count",
                               "route_rank", "avg_fare_on_route", "computed_at"},
                              {}, HeadRows(ranked, top_n))]

compute_popular_routes(f, top_n, now) == OrEmpty(popular_routes_try(f, top_n, now))

\* variant: the table is returned in group order, without sort_values
booking_count_try_unsorted(f, now) ==
    IF Unreadable(f, {"airline"})
    THEN [raised |-> TRUE, value |-> EmptyFrame]
    ELSE LET keys == SortedKeys(GroupKeys(f, <<"airline">>))
         IN  [raised |-> FALSE,
              value |-> Frame({"airline", "total_bookings", "computed_at"}, {},
                          [j \in DOMAIN keys |->
                              [airline |-> keys[j][1],
                               total_bookings |->
                                   Num(Cardinality(Group(f, <<"airline">>, keys[j]))),
                               computed_at |-> now]])]

\* the try block of compute_booking_count_by_airline
booking_count_try(f, now) ==
    IF Unreadable(f, {"airline"})
    THEN [raised |-> TRUE, value |-> EmptyFrame]
    ELSE LET keys == SortedKeys(GroupKeys(f, <<"airline">>))
             kpi == [j \in DOMAIN keys |->
                       [airline |-> keys[j][1],
                        total_bookings |->
                            Num(Cardinality(Group(f, <<"airline">>, keys[j]))),
                        computed_at |-> now]]
         IN  [raised |-> FALSE,
              value |-> Frame({"airline", "total_bookings", "computed_at"},
                              {}, SortDesc(kpi, "total_bookings"))]

compute_booking_count_by_airline(f, now) == OrEmpty(booking_count_try(f, now))

KpiNames ==
    {"airline_average", "seasonal_variation", "popular_routes", "booking_count"}

\* compute_all_kpis: a KPI that raises takes the whole call with it
compute_all_kpis(f, top_routes, now) ==
    LET a == compute_airline_average_fare(f, now)
        s == compute_seasonal_variation(f, now)
        p == compute_popular_routes(f, top_routes, now)
        b == compute_booking_count_by_airline(f, now)
    IN  IF a.raised \/ s.raised \/ p.raised \/ b.raised
        THEN [raised |-> TRUE, kpis |-> <<>>]
        ELSE [raised |-> FALSE,
              kpis |-> [airline_average |-> a.value,
                        seasonal_variation |-> s.value,
                        popular_routes |-> p.value,
                        booking_count |-> b.value]]

\* --------------------------------------------------------------- the DAG
\* get_staging_data_for_validation: the rows of the table, those of one
\* source file when a (non-empty) name is given, whatever their status
get_staging_data_for_validation(table, source_file) ==
    IF ~IsNull(source_file) /\ source_file.s # <<>>
    THEN Frame(table.cols, {},
               SelectSeq(table.rows, LAMBDA r : r.source_file = source_file))
    ELSE Frame(table.cols, {}, table.rows)

\* ingest_meta.get('source_file') if ingest_meta else None
SourceFileOf(ingest_meta) ==
    IF ingest_meta.present THEN ingest_meta.source_file ELSE Null

\* the rows validate_data appends to data_quality_metrics
MetricsRows(r) ==
    [i \in DOMAIN r.checks_performed |->
        [check_name |-> r.checks_performed[i].check_name,
         check_type |-> r.checks_performed[i].check_type,
         records_processed |-> r.total_records,
         records_valid |-> r.checks_performed[i].records_passed,
         records_invalid |-> r.checks_performed[i].records_failed,
         error_message |-> r.checks_performed[i].error_message]]

\* validate_data: the frame read, the report and the metrics rows
validate_data(table, ingest_meta) ==
    TheOne({[df |-> d, raised |-> r.raised, report |-> r.report,
             flags |-> r.flags, metrics |-> MetricsRows(r.report)] :
            d \in {get_staging_data_for_validation(table, SourceFileOf(ingest_meta))},
            r \in {validate_data_quality(
                      get_staging_data_for_validation(table, SourceFileOf(ingest_meta)),
                      [given |-> FALSE, cities |-> <<>>])}})

\* transform_data enriching only the rows no check flagged
transform_data_unflagged(table, ingest_meta, now) ==
    TheOne({[raised |-> r.raised,
             value |-> IF r.raised THEN EmptyFrame ELSE r.heap[r.ref]] :
            r \in {clean_and_enrich(
                      <<TheOne({Frame(d.df.cols, {},
                                   KeepFrom(d.df.rows,
                                       Index(d.df) \ (d.flags.by_type \cup d.flags.nulls
                                           \cup d.flags.negs \cup d.flags.cities
                                           \cup d.flags.fare), 1)) :
                                d \in {validate_data(table, ingest_meta)}})>>,
                      1, NoDateCol, now)}})

\* transform_data: the records of clean_and_enrich(df) on the same read
transform_data(table, ingest_meta, now) ==
    TheOne({[raised |-> r.raised,
             value |-> IF r.raised THEN EmptyFrame ELSE r.heap[r.ref]] :
            r \in {clean_and_enrich(
                      <<get_staging_data_for_validation(table, SourceFileOf(ingest_meta))>>,
                      1, NoDateCol, now)}})

\* ------------------------------------------------------ validator inputs
CleanRow ==
    [airline |-> Str(<<"a">>), source |-> Str(<<"d">>), destination |-> Str(<<"d">>),
     base_fare |-> Num(100), tax_surcharge |-> Num(20), total_fare |-> Num(120),
     departure_date |-> Str(<<"0", "5", "-", "1", "5">>),
     stopovers |-> Str(<<"x">>), validation_errors |-> Null]
AllInputCols == DOMAIN CleanRow

\* rows that leave the clean row in one or two cells
ValidatorRows ==
    {CleanRow}
    \cup {[CleanRow EXCEPT !.airline = v] : v \in {Str(<<" ">>), Str(<<>>), Null}}
    \cup {[CleanRow EXCEPT !.source = v] : v \in {Str(<<"D">>), Str(<<"x">>), Null}}
    \cup {[CleanRow EXCEPT !.destination = Str(<<"x">>)]}
    \cup {[CleanRow EXCEPT !.base_fare = v] :
            v \in {Num(-5), Null, Str(<<"a", "b">>), Str(<<"1", "0", "0">>)}}
    \cup {[CleanRow EXCEPT !.tax_surcharge = Str(<<"a", "b">>)],
          [CleanRow EXCEPT !.tax_surcharge = Num(0), !.total_fare = Num(100)]}
    \cup {[CleanRow EXCEPT !.total_fare = v] : v \in {Num(121), Num(122), Null}}
    \cup {[CleanRow EXCEPT !.stopovers = Null]}
    \cup {[CleanRow EXCEPT !.base_fare = Num(-5), !.total_fare = Num(15)],
          [CleanRow EXCEPT !.base_fare = Str(<<"a", "b">>), !.airline = Str(<<" ">>)],
          [CleanRow EXCEPT !.source = Str(<<"x">>), !.destination = Str(<<"x">>)]}

Restrict(r, cols) == [c \in cols |-> r[c]]

RowSeqs(S) == UNION {[1..n -> S] : n \in 0..MaxRows}

\* the column sets and doubled labels the validator is given
ValidatorShapes ==
    {[cols |-> AllInputCols, dup |-> {}],
     [cols |-> AllInputCols \ {"airline"}, dup |-> {}],
     [cols |-> AllInputCols \ {"total_fare"}, dup |-> {}],
     [cols |-> AllInputCols \ {"departure_date"}, dup |-> {"base_fare"}],
     [cols |-> AllInputCols, dup |-> {"base_fare"}],
     [cols |-> AllInputCols, dup |-> {"airline"}]}

NoCities == [given |-> FALSE, cities |-> <<>>]
Whitelists ==
    {NoCities, [given |-> TRUE, cities |-> <<>>],
     [given |-> TRUE, cities |-> <<<<"D">>>>]}

ValidatorFrames ==
    {Frame(sh.cols, sh.dup, [i \in 1..Len(rs) |-> Restrict(rs[i], sh.cols)]) :
        sh \in ValidatorShapes, rs \in RowSeqs(ValidatorRows)}

\* ------------------------------------------------- the validator, called
InitValidate ==
    /\ pc = "ready"
    /\ df \in ValidatorFrames
    /\ call \in {[op |-> "validate_data_quality", valid_cities |-> w] : w \in Whitelists}
    /\ report = NewReport
    /\ flagged = NoFlags
    /\ raised = FALSE
    /\ out = EmptyFrame
    /\ outIsNew = FALSE
    /\ ret = 0
    /\ kpis = <<>>
    /\ staging = EmptyFrame
    /\ dq_metrics = <<>>
    /\ postgres = NoTables

\* report = validate_data_quality(df, valid_cities)
CallValidate ==
    /\ pc = "ready"
    /\ call.op = "validate_data_quality"
    /\ \E r \in {validate_data_quality(df, call.valid_cities)} :
           /\ raised' = r.raised
           /\ report' = r.report
           /\ flagged' = r.flags
           /\ pc' = IF r.raised THEN "raised" ELSE "returned"
    /\ UNCHANGED <<df, call, out, outIsNew, ret, kpis, stores>>

NextValidate == CallValidate

SpecValidate == InitValidate /\ [][NextValidate]_vars

Returned(op) == pc = "returned" /\ call.op = op

\* ----------------------------------------------------------------- claims

\* C1: every report validate_data_quality returns has
\* valid_records + invalid_records = total_records and a validity_percentage
\* (as to_dict computes it) between 0 and 100.
C1_ReportTotals ==
    Returned("validate_data_quality") =>
        LET d == to_dict(report)
        IN  /\ d.valid_records + d.invalid_records = d.total_records
            /\ d.validity_percentage.den > 0
            /\ 0 <= d.validity_percentage.num
            /\ d.validity_percentage.num <= 100 * d.validity_percentage.den
            /\ (d.total_records = 0 => d.validity_percentage.num = 0)

C1_Witness ==
    /\ Returned("validate_data_quality")
    /\ report.valid_records = 1
    /\ report.invalid_records = 1
    /\ to_dict(report).validity_percentage = [num |-> 100, den |-> 2]

\* a row, read on its own, breaks one of the rules of checks 2-6
RowBadType(r) ==
    \/ \E c \in numeric_cols : ~IsNull(r[c]) /\ ~IsNum(ToNumeric(r[c]))
    \/ \E c \in string_cols : Strip(AsStr(r[c])) = <<>>
RowHasNull(r) == \E c \in (DOMAIN r) \ null_exempt_cols : IsNull(r[c])
RowNegative(r) == \E c \in numeric_cols : IsNum(ToNumeric(r[c])) /\ ToNumeric(r[c]).n < 0
RowBadCity(r, vc) ==
    /\ WhitelistActive(vc)
    /\ \E c \in city_cols :
        \A j \in 1..Len(vc.cities) : Lower(AsStr(r[c])) # Lower(vc.cities[j])
RowInconsistent(r) ==
    /\ \A c \in numeric_cols : IsNum(ToNumeric(r[c]))
    /\ Abs(ToNumeric(r["base_fare"]).n + ToNumeric(r["tax_surcharge"]).n
           - ToNumeric(r["total_fare"]).n) > 1
RowFlagged(r, vc) ==
    \/ RowBadType(r) \/ RowHasNull(r) \/ RowNegative(r)
    \/ RowBadCity(r, vc) \/ RowInconsistent(r)

RECURSIVE SeqSum(_)
SeqSum(q) == IF q = <<>> THEN 0 ELSE q[1] + SeqSum(Tail(q))
FailedPerCheck == [j \in 1..Len(report.checks_performed) |->
                    report.checks_performed[j].records_failed]

\* C2: with all required columns present, invalid_records is the number of
\* distinct rows that at least one of checks 2-6 flags (a row flagged by several
\* checks or in several columns counts once), and valid_records is
\* total_records minus that number.
C2_InvalidIsUnion ==
    (Returned("validate_data_quality") /\ required_columns \subseteq df.cols) =>
        LET bad == {i \in Index(df) : RowFlagged(df.rows[i], call.valid_cities)}
        IN  /\ report.invalid_records = Cardinality(bad)
            /\ report.valid_records = report.total_records - Cardinality(bad)
            /\ bad = flagged.by_type \cup flagged.nulls \cup flagged.negs
                        \cup flagged.cities \cup flagged.fare

\* a row flagged by several checks: the checks' failures add up to more than
\* the one invalid record
C2_Witness ==
    /\ Returned("validate_data_quality")
    /\ required_columns \subseteq df.cols
    /\ report.total_records = 2
    /\ report.invalid_records = 1
    /\ flagged.cities # {}
    /\ SeqSum(FailedPerCheck) > 1

CheckNames == [j \in 1..Len(report.checks_performed) |->
                report.checks_performed[j].check_name]

\* C3: a missing required column gives a report that marks every record
\* invalid and holds the single Required Columns entry (0 passed, all failed,
\* message set), with no later check run; otherwise all five later checks are
\* recorded, whatever each of them found.
C3_RequiredColumnsShortCircuit ==
    /\ (pc # "ready" /\ call.op = "validate_data_quality"
            /\ ~(required_columns \subseteq df.cols)) =>
        /\ pc = "returned"
        /\ report.invalid_records = report.total_records
        /\ report.total_records = NRows(df)
        /\ report.valid_records = 0
        /\ report.checks_performed =
            <<[check_name |-> "Required Columns", check_type |-> "COLUMN_VALIDATION",
               records_passed |-> 0, records_failed |-> NRows(df),
               error_message |-> "Missing required columns"]>>
        /\ flagged = NoFlags
    /\ (Returned("validate_data_quality") /\ required_columns \subseteq df.cols) =>
        CheckNames = <<"Data Types", "Null Values", "Negative Values",
                       "Valid Cities", "Fare Consistency">>

\* a missing column on a dataset whose rows would otherwise all pass
C3_Witness ==
    /\ Returned("validate_data_quality")
    /\ "departure_date" \notin df.cols
    /\ NRows(df) = 2
    /\ report.invalid_records = 2
    /\ Len(report.checks_performed) = 1

\* a check of checks 2-6 raises inside validate_data_quality: a doubled label
\* among the type-checked columns makes validate_data_types raise
TypeCheckRaises ==
    /\ required_columns \subseteq df.cols
    /\ (numeric_cols \cup string_cols) \cap df.dup # {}

\* C4 (as claimed): when a check raises internally the call still returns, the
\* report holds that check's entry with 0 passed, total_records failed and the
\* message captured, and the later checks are recorded.
C4_CheckFailureIsolated ==
    (pc # "ready" /\ call.op = "validate_data_quality" /\ TypeCheckRaises) =>
        /\ pc = "returned"
        /\ Len(report.checks_performed) = 5
        /\ report.checks_performed[1].records_passed = 0
        /\ report.checks_performed[1].records_failed = report.total_records
        /\ report.checks_performed[1].error_message # "None"

\* ----------------------------------------------- the transformer, called
TransformRows ==
    {CleanRow}
    \cup {[CleanRow EXCEPT !.airline = v] : v \in {Str(<<" ", "a">>), Null}}
    \cup {[CleanRow EXCEPT !.base_fare = v] :
            v \in {Null, Str(<<"a", "b">>), Str(<<"1", "0", "0">>)}}
    \cup {[CleanRow EXCEPT !.tax_surcharge = Null]}
    \cup {[CleanRow EXCEPT !.total_fare = v] :
            v \in {Num(121), Num(150), Null, Str(<<"a", "b">>), Str(<<"1", "5", "0">>)}}
    \cup {[CleanRow EXCEPT !.departure_date = v] :
            v \in {Date(7, 1), Str(DateText(2, 30)), Str(<<>>), Null}}
    \cup {[CleanRow EXCEPT !.base_fare = Null, !.total_fare = Null]}

\* the column sets given to the transformer; flight_date, when the dataset
\* already has it, holds what departure_date holds
TransformShapes ==
    {[cols |-> AllInputCols, flight_date |-> FALSE],
     [cols |-> AllInputCols \ {"total_fare"}, flight_date |-> FALSE],
     [cols |-> AllInputCols \ {"base_fare"}, flight_date |-> FALSE],
     [cols |-> AllInputCols, flight_date |-> TRUE],
     [cols |-> AllInputCols \ {"validation_errors"}, flight_date |-> FALSE]}

ShapedRow(r, sh) ==
    [c \in sh.cols \cup (IF sh.flight_date THEN {"flight_date"} ELSE {}) |->
        IF c = "flight_date" THEN r["departure_date"] ELSE r[c]]

TransformFrames ==
    {Frame(DOMAIN ShapedRow(CleanRow, sh), {},
           [i \in 1..Len(rs) |-> ShapedRow(rs[i], sh)]) :
        sh \in TransformShapes, rs \in RowSeqs(TransformRows)}

Today == {Date(5, 15)}

TransformCalls ==
    {[op |-> "calculate_total_fare"]}
    \cup {[op |-> "clean_and_enrich", extract_date_col |-> c, now |-> t] :
            c \in {NoDateCol, "departure_date"}, t \in Today}
    \cup {[op |-> "remove_duplicates", subset |-> k, keep |-> p] :
            k \in {NoSubset}, p \in {"first", "last", "none"}}
    \cup {[op |-> "handle_missing_values", strategy |-> g] :
            g \in {"drop", "median", "forward_fill", "skip"}}
    \cup {[op |-> "validate_data_quality", valid_cities |-> NoCities]}

InitTransform ==
    /\ pc = "ready"
    /\ df \in TransformFrames
    /\ call \in TransformCalls
    /\ report = NewReport
    /\ flagged = NoFlags
    /\ raised = FALSE
    /\ out = EmptyFrame
    /\ outIsNew = FALSE
    /\ ret = 0
    /\ kpis = <<>>
    /\ staging = EmptyFrame
    /\ dq_metrics = <<>>
    /\ postgres = NoTables

\* what the caller sees after a call that worked on heap <<df>>, reference 1
Outcome(r, count) ==
    /\ df' = r.heap[1]
    /\ raised' = r.raised
    /\ pc' = IF r.raised THEN "raised" ELSE "returned"
    /\ out' = IF r.raised THEN EmptyFrame ELSE r.heap[r.ref]
    /\ outIsNew' = (~r.raised /\ r.ref # 1)
    /\ ret' = count
    /\ UNCHANGED <<call, report, flagged, kpis, stores>>

\* out = calculate_total_fare(df)
CallCalculateTotalFare ==
    /\ pc = "ready"
    /\ call.op = "calculate_total_fare"
    /\ \E r \in {calculate_total_fare(<<df>>, 1)} :
            Outcome([raised |-> FALSE, heap |-> r.heap, ref |-> r.ref], 0)

\* out = clean_and_enrich(df, extract_date_col)
CallCleanAndEnrich ==
    /\ pc = "ready"
    /\ call.op = "clean_and_enrich"
    /\ \E r \in {clean_and_enrich(<<df>>, 1, call.extract_date_col, call.now)} :
            Outcome(r, 0)

\* out, ret = remove_duplicates(df, subset, keep)
CallRemoveDuplicates ==
    /\ pc = "ready"
    /\ call.op = "remove_duplicates"
    /\ \E r \in {remove_duplicates(<<df>>, 1, call.subset, call.keep)} :
            Outcome(r, r.count)

\* out, ret = handle_missing_values(df, strategy)
CallHandleMissingValues ==
    /\ pc = "ready"
    /\ call.op = "handle_missing_values"
    /\ \E r \in {handle_missing_values(<<df>>, 1, call.strategy)} :
            Outcome(r, r.count)

NextTransform ==
    \/ CallCalculateTotalFare
    \/ CallCleanAndEnrich
    \/ CallRemoveDuplicates
    \/ CallHandleMissingValues
    \/ CallValidate

SpecTransform == InitTransform /\ [][NextTransform]_vars

\* |base_fare + tax_surcharge - total_fare| <= 0.01 in one row
FareInvariantRow(o) ==
    /\ numeric_cols \subseteq DOMAIN o
    /\ IsNum(o["base_fare"]) /\ IsNum(o["tax_surcharge"]) /\ IsNum(o["total_fare"])
    /\ Abs(o["base_fare"].n + o["tax_surcharge"].n - o["total_fare"].n) <= 1

RowReconcilable(r) ==
    /\ {"base_fare", "tax_surcharge"} \subseteq DOMAIN r
    /\ IsNum(ToNumeric(r["base_fare"])) /\ IsNum(ToNumeric(r["tax_surcharge"]))
    /\ \/ "total_fare" \notin DOMAIN r
       \/ IsNull(r["total_fare"])
       \/ IsNum(ToNumeric(r["total_fare"]))

TransformerOps ==
    {"calculate_total_fare", "clean_and_enrich", "remove_duplicates",
     "handle_missing_values"}

\* C8: no call changes the caller's dataset, and what a transformer function
\* returns is another object than the dataset it was given.
C8_CallerDatasetUntouched ==
    [][/\ df' = df
       /\ (pc' = "returned" /\ call.op \in TransformerOps) => outIsNew']_vars

\* clean_and_enrich returned a dataset whose cells differ from the input's
C8_Witness ==
    /\ Returned("clean_and_enrich")
    /\ outIsNew
    /\ NRows(df) = 2
    /\ "total_fare" \in df.cols
    /\ df.rows[1]["airline"] = Str(<<" ", "a">>)
    /\ out.rows[1]["airline"] = Str(<<"A">>)
    /\ df.rows[2]["total_fare"] = Num(150)
    /\ out.rows[2]["total_fare"] = Num(120)

\* ------------------------------------------------- classify_season, called
SeasonInputs ==
    {Date(m, d) : m \in 1..12, d \in {1, 15, 28}}
    \cup {Str(DateText(m, d)) : m \in 0..13, d \in {1, 31}}
    \cup {Null, Str(<<>>), Str(<<"N", "a", "T">>), Str(<<"a", "b">>), Num(5)}

InitSeason ==
    /\ pc = "ready"
    /\ df = EmptyFrame
    /\ call \in {[op |-> "classify_season", date_obj |-> v] : v \in SeasonInputs}
    /\ report = NewReport
    /\ flagged = NoFlags
    /\ raised = FALSE
    /\ out = EmptyFrame
    /\ outIsNew = FALSE
    /\ ret = 0
    /\ kpis = <<>>
    /\ staging = EmptyFrame
    /\ dq_metrics = <<>>
    /\ postgres = NoTables

\* ret = classify_season(date_obj); the function's own try lets nothing out
CallClassifySeason ==
    /\ pc = "ready"
    /\ call.op = "classify_season"
    /\ ret' = classify_season(call.date_obj)
    /\ pc' = "returned"
    /\ UNCHANGED <<df, call, report, flagged, raised, out, outIsNew, kpis, stores>>

NextSeason == CallClassifySeason

SpecSeason == InitSeason /\ [][NextSeason]_vars

\* the date a value stands for: a date object, or a text that names a real
\* day of the calendar
IsRealDate(v) ==
    \/ v.k = "date"
    \/ v.k = "str" /\ \E m \in 1..12 : \E d \in 1..DaysIn(m) : v.s = DateText(m, d)
MonthNamed(v) == IF v.k = "date" THEN v.n \div 100 ELSE DigitsVal(SubSeq(v.s, 1, 2))

\* C7 (as claimed): classify_season depends on the month alone (5, 7:
\* PEAK_EID; 12, 1: PEAK_WINTER; the others NON_PEAK), gives UNKNOWN for a
\* null or unparseable date, and never raises.
C7_SeasonByMonth ==
    (pc # "ready" /\ call.op = "classify_season") =>
        /\ pc = "returned"
        /\ IF IsRealDate(call.date_obj)
           THEN ret = (CASE MonthNamed(call.date_obj) \in {5, 7} -> "PEAK_EID"
                         [] MonthNamed(call.date_obj) \in {12, 1} -> "PEAK_WINTER"
                         [] OTHER -> "NON_PEAK")
           ELSE ret = "UNKNOWN"

\* ------------------------------------------------------------ KPI inputs
KpiRow ==
    [airline |-> Str(<<"A">>), source |-> Str(<<"D">>), destination |-> Str(<<"D">>),
     base_fare |-> Num(100), tax_surcharge |-> Num(20), total_fare |-> Num(120),
     season |-> Token("NON_PEAK")]

\* enriched rows of two airlines on two routes, with a missing airline, a
\* missing destination and missing fares among them
KpiRows ==
    {KpiRow,
     [KpiRow EXCEPT !.airline = Str(<<"B">>)],
     [KpiRow EXCEPT !.destination = Str(<<"X">>)],
     [KpiRow EXCEPT !.airline = Str(<<"B">>), !.destination = Str(<<"X">>),
                    !.total_fare = Num(151), !.season = Token("PEAK_EID")],
     [KpiRow EXCEPT !.total_fare = Num(151), !.season = Token("PEAK_EID")],
     [KpiRow EXCEPT !.total_fare = Null, !.season = Token("UNKNOWN")],
     [KpiRow EXCEPT !.destination = Str(<<"X">>), !.total_fare = Null,
                    !.season = Token("UNKNOWN")],
     [KpiRow EXCEPT !.airline = Null],
     [KpiRow EXCEPT !.destination = Null]}

\* the rows of the datasets that are one row longer
KpiCoreRows ==
    {KpiRow,
     [KpiRow EXCEPT !.destination = Str(<<"X">>)],
     [KpiRow EXCEPT !.airline = Str(<<"B">>), !.destination = Str(<<"X">>),
                    !.total_fare = Num(151), !.season = Token("PEAK_EID")],
     [KpiRow EXCEPT !.airline = Null]}

KpiRowSeqs == RowSeqs(KpiRows) \cup [1..(MaxRows + 1) -> KpiCoreRows]

\* the column sets compute_all_kpis is given
KpiShapes ==
    {DOMAIN KpiRow, DOMAIN KpiRow \ {"season"}, DOMAIN KpiRow \ {"total_fare"},
     DOMAIN KpiRow \ {"airline"}, DOMAIN KpiRow \ {"source"}, {}}

KpiFrames ==
    {Frame(cols, {}, [i \in 1..Len(rs) |-> Restrict(rs[i], cols)]) :
        cols \in KpiShapes, rs \in KpiRowSeqs}

KpiCalls ==
    {[op |-> "compute_all_kpis", top_routes |-> n, now |-> t] :
        n \in {1, 2}, t \in Today}
    \cup {[op |-> "compute_popular_routes", top_n |-> n, now |-> t] :
        n \in {1, 2, 3}, t \in Today}
    \cup {[op |-> o, now |-> t] :
        o \in {"compute_airline_average_fare", "compute_seasonal_variation",
               "compute_booking_count_by_airline"}, t \in Today}

\* ---------------------------------------------- the KPI functions, called
InitKpi ==
    /\ pc = "ready"
    /\ df \in KpiFrames
    /\ call \in KpiCalls
    /\ report = NewReport
    /\ flagged = NoFlags
    /\ raised = FALSE
    /\ out = EmptyFrame
    /\ outIsNew = FALSE
    /\ ret = 0
    /\ kpis = <<>>
    /\ staging = EmptyFrame
    /\ dq_metrics = <<>>
    /\ postgres = NoTables

\* kpis = compute_all_kpis(df, top_routes)
CallComputeAllKpis ==
    /\ pc = "ready"
    /\ call.op = "compute_all_kpis"
    /\ \E r \in {compute_all_kpis(df, call.top_routes, call.now)} :
           /\ raised' = r.raised
           /\ kpis' = r.kpis
           /\ pc' = IF r.raised THEN "raised" ELSE "returned"
    /\ UNCHANGED <<df, call, report, flagged, out, outIsNew, ret, stores>>

\* what the caller sees after one KPI function returned r
KpiOutcome(r) ==
    /\ raised' = r.raised
    /\ out' = r.value
    /\ outIsNew' = ~r.raised
    /\ pc' = IF r.raised THEN "raised" ELSE "returned"
    /\ UNCHANGED <<df, call, report, flagged, ret, kpis, stores>>

\* out = compute_airline_average_fare(df)
CallComputeAirlineAverageFare ==
    /\ pc = "ready"
    /\ call.op = "compute_airline_average_fare"
    /\ \E r \in {compute_airline_average_fare(df, call.now)} : KpiOutcome(r)

\* out = compute_seasonal_variation(df)
CallComputeSeasonalVariation ==
    /\ pc = "ready"
    /\ call.op = "compute_seasonal_variation"
    /\ \E r \in {compute_seasonal_variation(df, call.now)} : KpiOutcome(r)

\* out = compute_popular_routes(df, top_n)
CallComputePopularRoutes ==
    /\ pc = "ready"
    /\ call.op = "compute_popular_routes"
    /\ \E r \in {compute_popular_routes(df, call.top_n, call.now)} : KpiOutcome(r)

\* out = compute_booking_count_by_airline(df)
CallComputeBookingCountByAirline ==
    /\ pc = "ready"
    /\ call.op = "compute_booking_count_by_airline"
    /\ \E r \in {compute_booking_count_by_airline(df, call.now)} : KpiOutcome(r)

NextKpi ==
    \/ CallComputeAllKpis
    \/ CallComputeAirlineAverageFare
    \/ CallComputeSeasonalVariation
    \/ CallComputePopularRoutes
    \/ CallComputeBookingCountByAirline

SpecKpi == InitKpi /\ [][NextKpi]_vars

\* the columns each KPI reads
KpiNeeds ==
    [airline_average |-> {"airline", "base_fare", "tax_surcharge", "total_fare"},
     seasonal_variation |-> {"airline", "season", "total_fare"},
     popular_routes |-> {"source", "destination", "total_fare"},
     booking_count |-> {"airline"}]

\* df with the columns it lacks added, every cell of them missing
Completed(f) ==
    Frame(DOMAIN KpiRow, f.dup,
          [i \in Index(f) |->
              [c \in DOMAIN KpiRow |-> IF c \in f.cols THEN f.rows[i][c] ELSE Null]])

\* each KPI computed on its own
KpiAlone(f, top_routes, now) ==
    [airline_average |-> compute_airline_average_fare(f, now).value,
     seasonal_variation |-> compute_seasonal_variation(f, now).value,
     popular_routes |-> compute_popular_routes(f, top_routes, now).value,
     booking_count |-> compute_booking_count_by_airline(f, now).value]

\* C10: compute_all_kpis never raises and returns the four keys; a KPI that
\* lacks a column it reads is an empty table, and every KPI that has its
\* columns is the table it would be had the dataset lacked nothing.
C10_KpiFailureIsolated ==
    (pc # "ready" /\ call.op = "compute_all_kpis") =>
        /\ pc = "returned"
        /\ DOMAIN kpis = KpiNames
        /\ \A k \in KpiNames :
              IF KpiNeeds[k] \subseteq df.cols
              THEN kpis[k] = KpiAlone(Completed(df), call.top_routes, call.now)[k]
              ELSE kpis[k] = EmptyFrame

\* C10 witness: a dataset without a season column, whose seasonal variation
\* is empty while the other three KPIs have rows
C10_Witness ==
    /\ Returned("compute_all_kpis")
    /\ "season" \notin df.cols
    /\ kpis.seasonal_variation = EmptyFrame
    /\ NRows(kpis.airline_average) > 0
    /\ NRows(kpis.popular_routes) > 0
    /\ NRows(kpis.booking_count) > 0

\* ----------------------------------------------------------- the pipeline
\* the staging table after ingest_to_staging: the CSV columns and the
\* metadata columns load_csv_to_mysql adds
StagingRow(r, file) ==
    [c \in DOMAIN r \cup {"source_file", "record_status"} |->
        CASE c = "source_file" -> file
          [] c = "record_status" -> Str(<<"V">>)
          [] OTHER -> r[c]]

SourceFiles == {Str(<<"a">>), Str(<<"b">>)}

PipelineRows ==
    {StagingRow(r, file) :
        r \in {CleanRow,
               [CleanRow EXCEPT !.airline = Null],
               [CleanRow EXCEPT !.base_fare = Num(-5)],
               [CleanRow EXCEPT !.total_fare = Num(150)],
               [CleanRow EXCEPT !.total_fare = Null],
               [CleanRow EXCEPT !.source = Str(<<" ", "d">>)]},
        file \in SourceFiles}

StagingCols == DOMAIN StagingRow(CleanRow, Str(<<"a">>))

StagingTables ==
    {Frame(cols, {}, [i \in 1..Len(rs) |-> Restrict(rs[i], cols)]) :
        cols \in {StagingCols, StagingCols \ {"total_fare"},
                  StagingCols \ {"base_fare"}, StagingCols \ {"departure_date"}},
        rs \in RowSeqs(PipelineRows)}

\* the XCom of ingest_to_staging: the metadata, or nothing
NoMeta == [present |-> FALSE, source_file |-> Null]
IngestMeta == {NoMeta} \cup {[present |-> TRUE, source_file |-> f] : f \in SourceFiles}

InitPipeline ==
    /\ pc = "validate_data"
    /\ staging \in StagingTables
    /\ call \in {[op |-> "pipeline", ingest_meta |-> m, now |-> t] :
                    m \in IngestMeta, t \in Today}
    /\ df = EmptyFrame
    /\ report = NewReport
    /\ flagged = NoFlags
    /\ raised = FALSE
    /\ out = EmptyFrame
    /\ outIsNew = FALSE
    /\ ret = 0
    /\ kpis = <<>>
    /\ dq_metrics = <<>>
    /\ postgres = NoTables

\* the task validate_data: the report goes to XCom, the checks to
\* data_quality_metrics unless writing them fails, which is swallowed
ValidateDataTask ==
    /\ pc = "validate_data"
    /\ call.op = "pipeline"
    /\ \E r \in {validate_data(staging, call.ingest_meta)} :
           /\ df' = r.df
           /\ raised' = r.raised
           /\ report' = r.report
           /\ flagged' = r.flags
           /\ pc' = IF r.raised THEN "failed" ELSE "transform_data"
           /\ \/ dq_metrics' = dq_metrics \o r.metrics
              \/ dq_metrics' = dq_metrics
    /\ UNCHANGED <<call, out, outIsNew, ret, kpis, staging, postgres>>

\* the task transform_data: the enriched records go to XCom
TransformDataTask ==
    /\ pc = "transform_data"
    /\ call.op = "pipeline"
    /\ \E r \in {transform_data(staging, call.ingest_meta, call.now)} :
           /\ raised' = r.raised
           /\ out' = r.value
           /\ outIsNew' = ~r.raised
           /\ pc' = IF r.raised THEN "failed" ELSE "transformed"
    /\ UNCHANGED <<df, call, report, flagged, ret, kpis, stores>>

NextPipeline == ValidateDataTask \/ TransformDataTask

SpecPipeline == InitPipeline /\ [][NextPipeline]_vars

\* the staging rows of the run's file, or all of them when no file is named
RowsOfRun ==
    IF call.ingest_meta.present
    THEN SelectSeq(staging.rows, LAMBDA r : r.source_file = call.ingest_meta.source_file)
    ELSE staging.rows

\* C9: when transform_data has returned, validation has examined every
\* staging row of the run and removed none, the enriched records are those
\* same rows, one record per row and as many as the report's total_records,
\* flagged rows included, and they are what the staging rows alone give.
C9_TransformSeesValidatedRows ==
    (call.op = "pipeline" /\ pc = "transformed") =>
        /\ df.rows = RowsOfRun
        /\ report.total_records = Len(RowsOfRun)
        /\ NRows(out) = report.total_records
        /\ \A i \in Index(out) :
              \A c \in staging.cols \ (numeric_cols \cup string_cols) :
                  out.rows[i][c] = RowsOfRun[i][c]
        /\ out = TheOne({r.heap[r.ref] :
                           r \in {clean_and_enrich(<<Frame(staging.cols, {}, RowsOfRun)>>,
                                                   1, NoDateCol, call.now)}})

\* C9 witness: validation counted invalid rows and every row was enriched
C9_Witness ==
    /\ call.op = "pipeline"
    /\ pc = "transformed"
    /\ report.invalid_records > 0
    /\ report.valid_records > 0
    /\ NRows(out) = report.total_records

\* ------------------------------------------------- claims about the KPIs
\* the routes of a dataset: the (source, destination) pairs of its rows that
\* name both ends
RoutesOf(f) ==
    {<<f.rows[i].source, f.rows[i].destination>> : i \in Index(f)}
        \ {p \in {<<f.rows[i].source, f.rows[i].destination>> : i \in Index(f)} :
              IsNull(p[1]) \/ IsNull(p[2])}

\* the bookings the KPI counts on a route: its rows with a numeric total_fare
RouteBookings(f, p) ==
    Cardinality({i \in Index(f) :
        /\ f.rows[i].source = p[1] /\ f.rows[i].destination = p[2]
        /\ IsNum(ToNumeric(f.rows[i].total_fare))})

RouteOfRow(o) == <<o.source, o.destination>>

PopularRoutesReturned ==
    /\ Returned("compute_popular_routes")
    /\ {"source", "destination", "total_fare"} \subseteq df.cols

FirstRecord(f, p) ==
    CHOOSE i \in Index(f) :
        /\ RouteOfRow(f.rows[i]) = p
        /\ \A j \in Index(f) : RouteOfRow(f.rows[j]) = p => i <= j

\* C12 (as claimed): of two routes with equal booking count, the one whose
\* first record comes earlier in the input has the smaller route_rank.
C12_TiesInInputOrder ==
    (PopularRoutesReturned /\ call.top_n >= Cardinality(RoutesOf(df))) =>
        \A i, j \in Index(out) :
            (i < j /\ out.rows[i].booking_count = out.rows[j].booking_count) =>
                FirstRecord(df, RouteOfRow(out.rows[i]))
                    < FirstRecord(df, RouteOfRow(out.rows[j]))

\* the airlines with a record in a peak season or in the non-peak season
PeakSeasons == {Token("PEAK_EID"), Token("PEAK_WINTER")}
NonPeakSeasons == {Token("NON_PEAK")}
SeasonRecords(f, a, seasons) ==
    {i \in Index(f) : f.rows[i].airline = a /\ f.rows[i].season \in seasons}
SeasonalAirlines(f) ==
    {f.rows[i].airline : i \in {j \in Index(f) :
        f.rows[j].season \in PeakSeasons \cup NonPeakSeasons}} \ {Null}

SeasonalVariationReturned ==
    /\ Returned("compute_seasonal_variation")
    /\ {"airline", "season", "total_fare"} \subseteq df.cols

\* fare_difference / avg_fare_non_peak * 100 in hundredths of a percent, or
\* null when either average is missing or the non-peak average is zero
PercentageIncrease(peak, non_peak) ==
    IF IsNum(peak) /\ IsNum(non_peak) /\ non_peak.n # 0
    THEN IF non_peak.n > 0
         THEN Num(RoundDiv((peak.n - non_peak.n) * 10000, non_peak.n))
         ELSE Num(RoundDiv((non_peak.n - peak.n) * 10000, 0 - non_peak.n))
    ELSE Null

\* C13 (as claimed): the row of every airline of the seasonal variation holds
\* peak_percentage_increase = fare_difference / avg_fare_non_peak * 100 when
\* the non-peak average is a non-zero number, and null when it is null or zero.
C13_PercentageIncreaseDefined ==
    SeasonalVariationReturned =>
        \A a \in SeasonalAirlines(df) :
            \E i \in Index(out) :
                /\ out.rows[i].airline = a
                /\ out.rows[i].peak_percentage_increase =
                      PercentageIncrease(
                          MeanOf(df, SeasonRecords(df, a, PeakSeasons), "total_fare"),
                          MeanOf(df, SeasonRecords(df, a, NonPeakSeasons), "total_fare"))

\* C14 (as claimed): the seasonal variation has exactly one row per airline
\* with a PEAK_EID, PEAK_WINTER or NON_PEAK record; a subset the airline is
\* absent from shows a null average and a count of 0, and UNKNOWN records are
\* in neither count.
C14_OneRowPerSeasonalAirline ==
    SeasonalVariationReturned =>
        /\ NRows(out) = Cardinality(SeasonalAirlines(df))
        /\ {out.rows[i].airline : i \in Index(out)} = SeasonalAirlines(df)
        /\ \A i \in Index(out) :
              LET a == out.rows[i].airline
                  peak == SeasonRecords(df, a, PeakSeasons)
                  non_peak == SeasonRecords(df, a, NonPeakSeasons)
              IN  /\ out.rows[i].avg_fare_peak = MeanOf(df, peak, "total_fare")
                  /\ out.rows[i].avg_fare_non_peak = MeanOf(df, non_peak, "total_fare")
                  /\ out.rows[i].peak_booking_count = Num(CountOf(df, peak, "total_fare"))
                  /\ out.rows[i].non_peak_booking_count =
                        Num(CountOf(df, non_peak, "total_fare"))

\* the named airlines of a dataset and the rows of each
AirlinesOf(f) == {f.rows[i].airline : i \in Index(f)} \ {Null}
AirlineRows(f, a) == {i \in Index(f) : f.rows[i].airline = a}

BookingCountReturned ==
    /\ Returned("compute_booking_count_by_airline")
    /\ "airline" \in df.cols

\* C15: compute_booking_count_by_airline returns one row per distinct airline
\* with total_bookings the number of input rows of that airline, in
\* non-increasing order of total_bookings, and the total_bookings sum to the
\* number of input rows that name an airline.
C15_BookingCountByAirline ==
    BookingCountReturned =>
        /\ NRows(out) = Cardinality(AirlinesOf(df))
        /\ {out.rows[i].airline : i \in Index(out)} = AirlinesOf(df)
        /\ \A i \in Index(out) :
              out.rows[i].total_bookings =
                  Num(Cardinality(AirlineRows(df, out.rows[i].airline)))
        /\ \A i, j \in Index(out) :
              i < j => out.rows[i].total_bookings.n >= out.rows[j].total_bookings.n
        /\ SumOver(Index(out), [i \in Index(out) |-> out.rows[i].total_bookings.n])
              = Cardinality({i \in Index(df) : ~IsNull(df.rows[i].airline)})

\* C15 witness: the airline that sorts second by name has two bookings and
\* comes first
C15_Witness ==
    /\ BookingCountReturned
    /\ NRows(df) = 3
    /\ NRows(out) = 2
    /\ out.rows[1].airline = Str(<<"B">>) /\ out.rows[1].total_bookings = Num(2)
    /\ out.rows[2].airline = Str(<<"A">>) /\ out.rows[2].total_bookings = Num(1)

\* ------------------------------------------ the checks, called one by one
CheckCalls ==
    {[op |-> "check_valid_cities", valid_cities |-> vc] :
        vc \in Whitelists \cup {[given |-> TRUE, cities |-> <<<<"d">>, <<"x">>>>]}}
    \cup {[op |-> "check_null_values", allow_null_cols |-> a] :
        a \in {{}, {"stopovers"}, {"airline", "base_fare"}}}
    \cup {[op |-> o] : o \in {"check_negative_values", "check_fare_consistency"}}
    \cup {[op |-> "validate_data_quality", valid_cities |-> NoCities]}

InitChecks ==
    /\ pc = "ready"
    /\ df \in ValidatorFrames
    /\ call \in CheckCalls
    /\ report = NewReport
    /\ flagged = NoFlags
    /\ raised = FALSE
    /\ out = EmptyFrame
    /\ outIsNew = FALSE
    /\ ret = 0
    /\ kpis = <<>>
    /\ staging = EmptyFrame
    /\ dq_metrics = <<>>
    /\ postgres = NoTables

\* what the caller sees after a check returned the locations v
CheckOutcome(v) ==
    /\ ret' = v
    /\ pc' = "returned"
    /\ UNCHANGED <<df, call, report, flagged, raised, out, outIsNew, kpis, stores>>

\* ret = check_valid_cities(df, valid_cities)
CallCheckValidCities ==
    /\ pc = "ready"
    /\ call.op = "check_valid_cities"
    /\ \E v \in {check_valid_cities(df, call.valid_cities)} : CheckOutcome(v)

\* ret = check_null_values(df, allow_null_cols)
CallCheckNullValues ==
    /\ pc = "ready"
    /\ call.op = "check_null_values"
    /\ \E v \in {check_null_values(df, call.allow_null_cols)} : CheckOutcome(v)

\* ret = check_negative_values(df)
CallCheckNegativeValues ==
    /\ pc = "ready"
    /\ call.op = "check_negative_values"
    /\ \E v \in {check_negative_values(df)} : CheckOutcome(v)

\* ret = check_fare_consistency(df)
CallCheckFareConsistency ==
    /\ pc = "ready"
    /\ call.op = "check_fare_consistency"
    /\ \E v \in {check_fare_consistency(df)} : CheckOutcome(v)

NextChecks ==
    \/ CallCheckValidCities
    \/ CallCheckNullValues
    \/ CallCheckNegativeValues
    \/ CallCheckFareConsistency
    \/ CallValidate

SpecChecks == InitChecks /\ [][NextChecks]_vars

\* every label names one column, as in any table read from the staging store
SingleLabels == df.dup = {}

\* the text is one of the whitelist's, letter case aside
InWhitelist(v, vc) ==
    \E j \in 1..Len(vc.cities) : Lower(AsStr(v)) = Lower(vc.cities[j])

\* the rows with a city cell outside the whitelist
OutsideWhitelist(f, vc) ==
    {i \in Index(f) : \E c \in city_cols \cap f.cols : ~InWhitelist(f.rows[i][c], vc)}

\* C16 (as claimed): check_valid_cities flags nothing when no whitelist is
\* supplied, and with a whitelist supplied flags exactly the rows with a
\* source or destination that is not one of its members, letter case aside.
C16_CityWhitelist ==
    (Returned("check_valid_cities") /\ SingleLabels) =>
        AllOf(ret) = (IF call.valid_cities.given
                      THEN OutsideWhitelist(df, call.valid_cities) ELSE {})

\* the three fares of the row are numbers
FaresNumeric(r) ==
    /\ numeric_cols \subseteq DOMAIN r
    /\ \A c \in numeric_cols : IsNum(ToNumeric(r[c]))

NullChecked(f, allow) == (f.cols \ null_exempt_cols) \ allow

\* C18: check_null_values flags, column by column, every row with a missing
\* value in a column that is neither a metadata column nor whitelisted by the
\* caller, and nothing else; in validate_data_quality without a city
\* whitelist a row with a null airline is flagged by the null check, counted
\* in invalid_records, and the city check fails no record.
C18_NullCheckFlags ==
    /\ (Returned("check_null_values") /\ SingleLabels) =>
          /\ DOMAIN ret \subseteq NullChecked(df, call.allow_null_cols)
          /\ \A c \in NullChecked(df, call.allow_null_cols) :
                \A i \in Index(df) :
                    IsNull(df.rows[i][c]) <=> (c \in DOMAIN ret /\ i \in ret[c])
    /\ (Returned("validate_data_quality") /\ SingleLabels
            /\ required_columns \subseteq df.cols /\ ~call.valid_cities.given) =>
          /\ \A i \in Index(df) :
                IsNull(df.rows[i].airline) => i \in flagged.nulls
          /\ report.invalid_records >= Cardinality(flagged.nulls)
          /\ report.checks_performed[2].records_failed = Cardinality(flagged.nulls)
          /\ report.checks_performed[4].check_name = "Valid Cities"
          /\ report.checks_performed[4].records_failed = 0

\* C18 witness: scenario E beside a clean row, whose null validation_errors
\* flags nothing
C18_Witness ==
    /\ Returned("validate_data_quality")
    /\ SingleLabels
    /\ AllInputCols \subseteq df.cols
    /\ NRows(df) = 2
    /\ IsNull(df.rows[1].airline) /\ IsNull(df.rows[1].validation_errors)
    /\ df.rows[2] = CleanRow
    /\ flagged.nulls = {1}
    /\ report.invalid_records = 1
    /\ report.checks_performed[4].records_failed = 0

\* the row has a fare that is a number below zero
HasNegativeFare(r) ==
    \E c \in numeric_cols \cap DOMAIN r : IsNum(ToNumeric(r[c])) /\ ToNumeric(r[c]).n < 0

\* C19: check_negative_values flags exactly the rows with a base_fare,
\* tax_surcharge or total_fare that is a number below 0; in
\* validate_data_quality a dataset that is clean but for one row with
\* base_fare = -5 has the Negative Values check failing 1 record and
\* invalid_records = 1.
C19_NegativeValuesFlagged ==
    /\ (Returned("check_negative_values") /\ SingleLabels) =>
          /\ AllOf(ret) = {i \in Index(df) : HasNegativeFare(df.rows[i])}
          /\ \A c \in DOMAIN ret :
                ret[c] = {i \in Index(df) :
                            IsNum(ToNumeric(df.rows[i][c])) /\ ToNumeric(df.rows[i][c]).n < 0}
    /\ (Returned("validate_data_quality") /\ SingleLabels
            /\ AllInputCols \subseteq df.cols
            /\ \E i \in Index(df) :
                  /\ df.rows[i] \in {[CleanRow EXCEPT !.base_fare = Num(-5)],
                                      [CleanRow EXCEPT !.base_fare = Num(-5),
                                                       !.total_fare = Num(15)]}
                  /\ \A j \in Index(df) \ {i} : df.rows[j] = CleanRow) =>
          /\ report.checks_performed[3].check_name = "Negative Values"
          /\ report.checks_performed[3].records_failed = 1
          /\ report.invalid_records = 1

\* C19 witness: scenario B beside a row with a zero surcharge that passes
C19_Witness ==
    /\ Returned("check_negative_values")
    /\ SingleLabels
    /\ numeric_cols \subseteq df.cols
    /\ NRows(df) = 2
    /\ df.rows[1].base_fare = Num(-5)
    /\ df.rows[2].tax_surcharge = Num(0)
    /\ ret = [c \in {"base_fare"} |-> {1}]


\* -------------------------------------------- remove_duplicates, called twice
DedupRows ==
    {CleanRow,
     [CleanRow EXCEPT !.stopovers = Null],
     [CleanRow EXCEPT !.total_fare = Num(121)],
     [CleanRow EXCEPT !.airline = Str(<<"b">>)],
     [CleanRow EXCEPT !.airline = Null],
     [CleanRow EXCEPT !.base_fare = Null, !.total_fare = Null]}

DedupCoreRows ==
    {CleanRow,
     [CleanRow EXCEPT !.stopovers = Null],
     [CleanRow EXCEPT !.airline = Str(<<"b">>)]}

DedupRowSeqs == RowSeqs(DedupRows) \cup [1..(MaxRows + 1) -> DedupCoreRows]

DedupFrames ==
    {Frame(sh, {}, [i \in 1..Len(rs) |-> Restrict(rs[i], sh)]) :
        sh \in {AllInputCols, AllInputCols \ {"base_fare"}}, rs \in DedupRowSeqs}

DedupCalls ==
    {[op |-> "remove_duplicates", subset |-> k, keep |-> p] :
        k \in {NoSubset, {"airline"}, {"airline", "total_fare"}},
        p \in {"first", "last", "none"}}

InitDedup ==
    /\ pc = "ready"
    /\ df \in DedupFrames
    /\ call \in DedupCalls
    /\ report = NewReport
    /\ flagged = NoFlags
    /\ raised = FALSE
    /\ out = EmptyFrame
    /\ outIsNew = FALSE
    /\ ret = 0
    /\ kpis = <<>>
    /\ staging = EmptyFrame
    /\ dq_metrics = <<>>
    /\ postgres = NoTables

\* out, ret = remove_duplicates(out, subset, keep): the function applied to
\* what it returned
CallRemoveDuplicatesAgain ==
    /\ pc = "returned"
    /\ call.op = "remove_duplicates"
    /\ \E r \in {remove_duplicates(<<out>>, 1, call.subset, call.keep)} :
            /\ raised' = r.raised
            /\ pc' = IF r.raised THEN "raised" ELSE "again"
            /\ out' = IF r.raised THEN EmptyFrame ELSE r.heap[r.ref]
            /\ outIsNew' = (~r.raised /\ r.ref # 1)
            /\ ret' = r.count
    /\ UNCHANGED <<df, call, report, flagged, kpis, stores>>

NextDedup == CallRemoveDuplicates \/ CallRemoveDuplicatesAgain

SpecDedup == InitDedup /\ [][NextDedup]_vars

\* the key columns of the call
DedupKey == IF call.subset = NoSubset THEN default_subset ELSE call.subset

\* the rows of df with the key of row i
SameKey(i) == {j \in Index(df) : \A k \in DedupKey : df.rows[j][k] = df.rows[i][k]}

\* the rows the keep policy of the call selects
Selected ==
    {i \in Index(df) :
        CASE call.keep = "first" -> \A j \in SameKey(i) : i <= j
          [] call.keep = "last" -> \A j \in SameKey(i) : j <= i
          [] OTHER -> SameKey(i) = {i}}

\* out holds the selected rows of df, in the order df has them
OutIsSelected ==
    /\ out.cols = df.cols
    /\ NRows(out) = Cardinality(Selected)
    /\ \A i \in Selected :
          out.rows[Cardinality({j \in Selected : j <= i})] = df.rows[i]

\* C20: remove_duplicates returns the first (keep='first') or last
\* (keep='last') row of every distinct key, or only the rows whose key occurs
\* once (keep=False), in the order of the input; the count it returns is the
\* input row count minus the output row count; applied to its own output it
\* removes 0 rows and returns the same rows.
C20_RemoveDuplicates ==
    /\ (pc = "returned" /\ call.op = "remove_duplicates") =>
          OutIsSelected /\ ret = NRows(df) - NRows(out)
    /\ pc = "again" => OutIsSelected /\ ret = 0

\* C20 witness: three rows, the first and the last with one key; keep='last'
\* returned rows 2 and 3 and the second application removed nothing
C20_Witness ==
    /\ pc = "again"
    /\ call.keep = "last"
    /\ call.subset = {"airline"}
    /\ NRows(df) = 3
    /\ df.rows[1] = CleanRow
    /\ df.rows[2].airline = Str(<<"b">>)
    /\ df.rows[3] = [CleanRow EXCEPT !.stopovers = Null]
    /\ out.rows = <<df.rows[2], df.rows[3]>>
    /\ ret = 0


\* the rows of df that handle_missing_values changed or removed, for a call
\* that kept the rows K of df in their order
ChangedOrRemoved(K) ==
    {i \in Index(df) :
        \/ i \notin K
        \/ out.rows[Cardinality({j \in K : j <= i})] # df.rows[i]}

\* C21: handle_missing_values returns the number of rows it changed or
\* removed: for 'drop' the rows removed for a missing airline, source,
\* destination, base_fare or tax_surcharge; for 'forward_fill' the rows the
\* fill changed (0 when nothing is missing); for 'median' the rows changed or
\* removed; for 'skip' 0, with the dataset unchanged.
C21_MissingValueCount ==
    Returned("handle_missing_values") =>
        CASE call.strategy = "drop" ->
                /\ ret = Cardinality({i \in Index(df) :
                                        HasNullIn(df.rows[i], default_subset)})
                /\ ret = NRows(df) - NRows(out)
          [] call.strategy = "forward_fill" ->
                /\ NRows(out) = NRows(df)
                /\ ret = Cardinality(ChangedOrRemoved(Index(df)))
          [] call.strategy = "median" ->
                ret = Cardinality(ChangedOrRemoved(
                        {i \in Index(df) : ~HasNullIn(df.rows[i], string_cols)}))
          [] OTHER -> ret = 0 /\ out = df


\* --------------------------------------------- clean_and_enrich, run twice
\* the processing dates of the two runs
Clock == {Date(4, 30), Date(5, 1)}

RerunFrames ==
    {Frame(DOMAIN ShapedRow(CleanRow, sh), {},
           [i \in 1..Len(rs) |-> ShapedRow(rs[i], sh)]) :
        sh \in {[cols |-> AllInputCols, flight_date |-> FALSE],
                [cols |-> AllInputCols, flight_date |-> TRUE]},
        rs \in RowSeqs(TransformRows)}

RerunCalls ==
    {[op |-> "clean_and_enrich", extract_date_col |-> c, now |-> t] :
        c \in {NoDateCol, "departure_date"}, t \in Clock}

InitRerun ==
    /\ pc = "ready"
    /\ df \in RerunFrames
    /\ call \in RerunCalls
    /\ report = NewReport
    /\ flagged = NoFlags
    /\ raised = FALSE
    /\ out = EmptyFrame
    /\ outIsNew = FALSE
    /\ ret = 0
    /\ kpis = <<>>
    /\ staging = EmptyFrame
    /\ dq_metrics = <<>>
    /\ postgres = NoTables

\* out = clean_and_enrich(out[input columns], extract_date_col), a later run
\* whose datetime.now() is its own; call.now becomes the date of this run
CallCleanAndEnrichAgain ==
    /\ pc = "returned"
    /\ call.op = "clean_and_enrich"
    /\ \E t \in Clock :
        \E r \in {clean_and_enrich(
                    <<Frame(df.cols, out.dup,
                            [i \in Index(out) |-> Restrict(out.rows[i], df.cols)])>>,
                    1, call.extract_date_col, t)} :
            /\ raised' = r.raised
            /\ pc' = IF r.raised THEN "raised" ELSE "again"
            /\ out' = IF r.raised THEN EmptyFrame ELSE r.heap[r.ref]
            /\ outIsNew' = ~r.raised
            /\ call' = [call EXCEPT !.now = t]
    /\ UNCHANGED <<df, report, flagged, ret, kpis, stores>>

NextRerun == CallCleanAndEnrich \/ CallCleanAndEnrichAgain

SpecRerun == InitRerun /\ [][NextRerun]_vars

\* the step from the first run's result to the second run's
SecondRun == pc = "returned" /\ pc' = "again"

\* the rows of the two runs agree in the columns cols
SameIn(cols) ==
    /\ NRows(out') = NRows(out)
    /\ \A i \in Index(out) : \A c \in cols : out'.rows[i][c] = out.rows[i][c]

\* C22: clean_and_enrich run again on its own output, stripped
\* to the input columns, with the same date column, gives every row the same
\* total_fare, season, airline, source and destination as the first run.
C22_RerunSameBusinessFields ==
    [][SecondRun => SameIn({"total_fare", "season"} \cup string_cols)]_vars


\* --------------------------------- the validation and the KPI stage, called
InitStages ==
    /\ pc = "ready"
    /\ \/ /\ df \in ValidatorFrames
          /\ call = [op |-> "validate_data_quality", valid_cities |-> NoCities]
       \/ /\ df \in KpiFrames
          /\ call \in {[op |-> "compute_all_kpis", top_routes |-> n, now |-> t] :
                          n \in {1, 2}, t \in Today}
    /\ report = NewReport
    /\ flagged = NoFlags
    /\ raised = FALSE
    /\ out = EmptyFrame
    /\ outIsNew = FALSE
    /\ ret = 0
    /\ kpis = <<>>
    /\ staging = EmptyFrame
    /\ dq_metrics = <<>>
    /\ postgres = NoTables

NextStages == CallValidate \/ CallComputeAllKpis

SpecStages == InitStages /\ [][NextStages]_vars

\* C23: for a dataset of zero rows validate_data_quality returns, without
\* raising, a report with total_records = 0 and validity_percentage = 0, and
\* compute_all_kpis returns, without raising, an empty table for each of the
\* four KPIs.  (A dataset has one column per label.)
C23_EmptyDataset ==
    (pc # "ready" /\ NRows(df) = 0 /\ SingleLabels) =>
        /\ pc = "returned"
        /\ call.op = "validate_data_quality" =>
              /\ report.total_records = 0
              /\ to_dict(report).validity_percentage.den > 0
              /\ to_dict(report).validity_percentage.num = 0
        /\ call.op = "compute_all_kpis" =>
              /\ DOMAIN kpis = KpiNames
              /\ \A k \in KpiNames : NRows(kpis[k]) = 0

\* C23 witness: the empty dataset with every column went through all checks
C23_Witness ==
    /\ Returned("validate_data_quality")
    /\ NRows(df) = 0
    /\ SingleLabels
    /\ required_columns \subseteq df.cols
    /\ Len(report.checks_performed) = 5
    /\ report.valid_records = 0
    /\ to_dict(report).validity_percentage = [num |-> 0, den |-> 1]


\* the date column of the call is named and the dataset has it
DateColumnGiven ==
    call.extract_date_col # NoDateCol /\ call.extract_date_col \in df.cols

\* the date portion of one source date, null for a missing or invalid one
DatePortion(v) ==
    IF ToDatetime(v).res = "date" THEN ToDatetime(v).date ELSE Null

\* C24: clean_and_enrich never raises in the flight-date derivation: an
\* existing flight_date is kept; else, with a date column named and present,
\* each row's flight_date is the date portion of its own source date (null
\* for a missing or invalid one); else every flight_date is the processing
\* date; and season, is_valid (true unless already set) and
\* loaded_timestamp are there in every case.
C24_FlightDateDerivation ==
    (pc # "ready" /\ call.op = "clean_and_enrich") =>
        /\ pc = "returned"
        /\ NRows(out) = NRows(df)
        /\ {"flight_date", "season", "is_valid", "loaded_timestamp"} \subseteq out.cols
        /\ \A i \in Index(df) :
              /\ out.rows[i].flight_date =
                    IF "flight_date" \in df.cols THEN df.rows[i].flight_date
                    ELSE IF DateColumnGiven
                    THEN DatePortion(df.rows[i][call.extract_date_col])
                    ELSE call.now
              /\ out.rows[i].season = Token(classify_season(out.rows[i].flight_date))
              /\ out.rows[i].is_valid = Bool(TRUE)
              /\ out.rows[i].loaded_timestamp = call.now

\* the rows whose source date is a date
ValidDates ==
    {i \in Index(df) : ToDatetime(df.rows[i][call.extract_date_col]).res = "date"}

\* clean_and_enrich of the dataset without the rows whose date is not a date
EnrichedValidOnly ==
    LET r == clean_and_enrich(<<KeepRows(df, ValidDates)>>, 1,
                              call.extract_date_col, call.now)
    IN  r.heap[r.ref]

\* C27: with a named date column, a row with a valid date gets the
\* flight_date and season it gets when the rows with unparseable dates are
\* left out of the dataset.
C27_RowDatesIndependent ==
    (Returned("clean_and_enrich") /\ DateColumnGiven /\ "flight_date" \notin df.cols) =>
        \A i \in ValidDates :
            LET j == Cardinality({k \in ValidDates : k <= i})
            IN  /\ out.rows[i].flight_date = EnrichedValidOnly.rows[j].flight_date
                /\ out.rows[i].season = EnrichedValidOnly.rows[j].season


\* ------------------------------------------------ load_csv_to_mysql, re-run
\* the number of runs looked at
MaxRuns == 3

\* rows per to_sql batch (2000 in the code)
chunksize == 2

\* the CSV files: "a" fills more than one chunk, "b" less than one
CsvLength(file) == IF file = Str(<<"a">>) THEN MaxRows + 1 ELSE 1

\* row i of the chunk read from the file, after the rename and the four
\* metadata columns (the timestamp left out)
ChunkRow(file, i) ==
    [airline |-> IF i % 2 = 1 THEN Str(<<"a">>) ELSE Str(<<"b">>),
     source_file |-> file,
     record_status |-> Str(<<"V">>),
     validation_errors |-> Null]

IngestCols == DOMAIN ChunkRow(Str(<<"a">>), 1)

\* the staging table before the first run: not there, created with the
\* ingestion columns, or created without the metadata columns
IngestTables ==
    {EmptyFrame, Frame(IngestCols, {}, <<>>), Frame({"airline"}, {}, <<>>)}

\* table_exists
table_exists(table) == table.cols # {}

\* variant: the DELETE has no WHERE clause
delete_file_rows_all(table, file) == Frame(table.cols, table.dup, <<>>)

\* DELETE FROM target_table WHERE source_file = :file
delete_file_rows(table, file) ==
    Frame(table.cols, table.dup,
          SelectSeq(table.rows, LAMBDA r : r.source_file # file))

\* chunk_df.to_sql(..., if_exists='append' or 'replace') of rows first..last
\* of the file, on a table that is missing or has the chunk's columns
to_sql(table, file, first, last) ==
    Frame(IngestCols, {},
          table.rows \o [i \in 1..(last - first + 1) |-> ChunkRow(file, first + i - 1)])

\* metadata, as built at the start of the call
NewMetadata(file) ==
    [total_rows |-> 0, source_file |-> file, status |-> "FAILED"]

InitIngest ==
    /\ pc = "idle"
    /\ staging \in IngestTables
    /\ call = [op |-> "load_csv_to_mysql", runs |-> 0, csv_path |-> Str(<<"a">>),
               mode |-> "append", if_exists |-> "append",
               chunk_num |-> 0, total_rows |-> 0]
    /\ ret = NewMetadata(Str(<<"a">>))
    /\ df = EmptyFrame
    /\ report = NewReport
    /\ flagged = NoFlags
    /\ raised = FALSE
    /\ out = EmptyFrame
    /\ outIsNew = FALSE
    /\ kpis = <<>>
    /\ dq_metrics = <<>>
    /\ postgres = NoTables

IngestIdle == <<df, report, flagged, out, outIsNew, kpis, dq_metrics, postgres>>

\* load_csv_to_mysql(csv_path, target_table, engine, if_exists=mode) is
\* called: by the DAG, by a retry of the task, or by hand
StartRun ==
    /\ pc \in {"idle", "returned", "raised"}
    /\ call.runs < MaxRuns
    /\ \E file \in SourceFiles, mode \in {"append", "replace"} :
          /\ call' = [op |-> "load_csv_to_mysql", runs |-> call.runs + 1,
                      csv_path |-> file, mode |-> mode, if_exists |-> mode,
                      chunk_num |-> 0, total_rows |-> 0]
          /\ ret' = NewMetadata(file)
    /\ raised' = FALSE
    /\ pc' = "clear"
    /\ UNCHANGED <<staging, IngestIdle>>

\* the table does not exist: nothing is cleared
ClearSkipped ==
    /\ pc = "clear"
    /\ ~table_exists(staging)
    /\ pc' = "chunks"
    /\ UNCHANGED <<staging, call, ret, raised, IngestIdle>>

\* if_exists == 'replace': TRUNCATE TABLE, then the local if_exists = 'append'
TruncateTable ==
    /\ pc = "clear"
    /\ table_exists(staging)
    /\ call.if_exists = "replace"
    /\ staging' = Frame(staging.cols, staging.dup, <<>>)
    /\ call' = [call EXCEPT !.if_exists = "append"]
    /\ pc' = "chunks"
    /\ UNCHANGED <<ret, raised, IngestIdle>>

\* the DELETE of this file's rows succeeds
DeleteFileRows ==
    /\ pc = "clear"
    /\ table_exists(staging)
    /\ call.if_exists # "replace"
    /\ "source_file" \in staging.cols
    /\ staging' = delete_file_rows(staging, call.csv_path)
    /\ pc' = "chunks"
    /\ UNCHANGED <<call, ret, raised, IngestIdle>>

\* the DELETE raises (no source_file column, or the database refuses it):
\* the exception is logged and the run goes on
DeleteFails ==
    /\ pc = "clear"
    /\ table_exists(staging)
    /\ call.if_exists # "replace"
    /\ pc' = "chunks"
    /\ UNCHANGED <<staging, call, ret, raised, IngestIdle>>

\* one pass of the chunk loop: the next chunk is inserted
InsertChunk ==
    /\ pc = "chunks"
    /\ call.total_rows < CsvLength(call.csv_path)
    /\ ~table_exists(staging) \/ staging.cols = IngestCols
    /\ \E last \in {IF call.total_rows + chunksize < CsvLength(call.csv_path)
                    THEN call.total_rows + chunksize
                    ELSE CsvLength(call.csv_path)} :
          /\ staging' = to_sql(staging, call.csv_path, call.total_rows + 1, last)
          /\ call' = [call EXCEPT !.chunk_num = @ + 1, !.total_rows = last,
                                  !.if_exists = "append"]
    /\ UNCHANGED <<pc, ret, raised, IngestIdle>>

\* anything from the TRUNCATE to the last to_sql raises (always the to_sql
\* into a table without the metadata columns): metadata stays FAILED and
\* the exception is re-raised
RunFails ==
    /\ \/ pc = "clear" /\ table_exists(staging) /\ call.if_exists = "replace"
       \/ pc = "chunks" /\ call.total_rows < CsvLength(call.csv_path)
    /\ raised' = TRUE
    /\ pc' = "raised"
    /\ UNCHANGED <<staging, call, ret, IngestIdle>>

\* the loop is over: metadata is completed and returned
RunSucceeds ==
    /\ pc = "chunks"
    /\ call.total_rows = CsvLength(call.csv_path)
    /\ ret' = [ret EXCEPT !.total_rows = call.total_rows, !.status = "SUCCESS"]
    /\ pc' = "returned"
    /\ UNCHANGED <<staging, call, raised, IngestIdle>>

NextIngest ==
    \/ StartRun
    \/ ClearSkipped
    \/ TruncateTable
    \/ DeleteFileRows
    \/ DeleteFails
    \/ InsertChunk
    \/ RunFails
    \/ RunSucceeds

SpecIngest == InitIngest /\ [][NextIngest]_vars

\* the staging rows of one file
FileRows(table, file) ==
    IF "source_file" \in table.cols
    THEN SelectSeq(table.rows, LAMBDA r : r.source_file = file)
    ELSE <<>>

\* C25: when a run of load_csv_to_mysql in append mode returns, its status is
\* SUCCESS and the staging table holds exactly one copy of the file's rows
\* (total_rows rows with that source_file), whatever runs came before,
\* failed ones included; a run that fails raises and its status is FAILED.
C25_IngestionIdempotent ==
    /\ (pc = "returned" /\ call.mode = "append") =>
          /\ ret.status = "SUCCESS"
          /\ ret.total_rows = CsvLength(call.csv_path)
          /\ Len(FileRows(staging, call.csv_path)) = ret.total_rows
    /\ pc = "raised" => ret.status = "FAILED"

C26_CheckEntriesBounded ==
    Returned("validate_data_quality") =>
        \A i \in DOMAIN report.checks_performed :
            LET e == report.checks_performed[i]
            IN  /\ e.records_passed + e.records_failed = report.total_records
                /\ 0 <= e.records_failed
                /\ e.records_failed <= report.total_records
                /\ e.records_passed >= 0


\* --------------------------------------- the tasks compute_kpis and load
\* TOP_ROUTES_LIMIT, when the environment does not set it
top_routes_limit == 10

\* DataFrame.to_dict(orient="records"): the rows, the columns of an empty
\* frame are lost
to_records(f) == f.rows

\* pd.DataFrame(records) of a list that is not empty
from_records(records) == Frame(DOMAIN records[1], {}, records)

\* compute_kpis: {} for no records, else the records of each KPI table
compute_kpis(records, now) ==
    IF records = <<>> THEN <<>>
    ELSE TheOne({[k \in DOMAIN r.kpis |-> to_records(r.kpis[k])] :
                 r \in {compute_all_kpis(from_records(records), top_routes_limit, now)}})

\* kpi_frames = {k: pd.DataFrame(v) for k, v in kpis_dict.items() if v}
kpi_frames(kpis_dict) ==
    [k \in {x \in DOMAIN kpis_dict : kpis_dict[x] # <<>>} |-> from_records(kpis_dict[k])]

\* the keys save_kpis_to_postgres reads before it writes a table, in its
\* order; booking_count is read last and written to no table
SaveOrder == <<"airline_average", "seasonal_variation", "popular_routes">>

KpiTable(k) ==
    CASE k = "airline_average" -> "kpi_airline_average"
      [] k = "seasonal_variation" -> "kpi_seasonal_variation"
      [] OTHER -> "kpi_popular_routes"

\* save_kpis_to_postgres: kpis_dict[key] of a key that is not in the mapping
\* raises KeyError, the handler logs it, and the keys after it are not
\* reached; a table that is reached is replaced by its frame (a frame built
\* from records is never empty)
save_kpis_to_postgres(frames, tables) ==
    [t \in DOMAIN tables |->
        IF \E i \in DOMAIN SaveOrder :
              /\ KpiTable(SaveOrder[i]) = t
              /\ \A j \in 1..i : SaveOrder[j] \in DOMAIN frames
        THEN frames[CHOOSE k \in DOMAIN frames \cap {"airline_average",
                        "seasonal_variation", "popular_routes"} : KpiTable(k) = t].rows
        ELSE tables[t]]

\* load_to_postgres: the records appended to flights_enriched, then the KPIs
load_to_postgres(records, kpis_dict, tables) ==
    LET enriched == [tables EXCEPT !.flights_enriched = @ \o records]
    IN  IF DOMAIN kpis_dict = {} THEN enriched
        ELSE save_kpis_to_postgres(kpi_frames(kpis_dict), enriched)

\* the records of transform_data in XCom are df
InitLoad ==
    /\ pc = "compute_kpis"
    /\ df \in KpiFrames
    /\ call \in {[op |-> "pipeline", now |-> t] : t \in Today}
    /\ report = NewReport
    /\ flagged = NoFlags
    /\ raised = FALSE
    /\ out = EmptyFrame
    /\ outIsNew = FALSE
    /\ ret = 0
    /\ kpis = <<>>
    /\ staging = EmptyFrame
    /\ dq_metrics = <<>>
    /\ postgres = NoTables

\* the task compute_kpis: the mapping goes to XCom
ComputeKpisTask ==
    /\ pc = "compute_kpis"
    /\ kpis' = compute_kpis(to_records(df), call.now)
    /\ pc' = "load_to_postgres"
    /\ UNCHANGED <<df, call, report, flagged, raised, out, outIsNew, ret,
                   staging, dq_metrics, postgres>>

\* the task load_to_postgres
LoadToPostgresTask ==
    /\ pc = "load_to_postgres"
    /\ postgres' = load_to_postgres(to_records(df), kpis, postgres)
    /\ pc' = "loaded"
    /\ UNCHANGED <<df, call, report, flagged, raised, out, outIsNew, ret, kpis,
                   staging, dq_metrics>>

\* bulk_insert_postgres raises (it rolls back and re-raises): the task fails
\* before the KPIs
LoadToPostgresFails ==
    /\ pc = "load_to_postgres"
    /\ df.rows # <<>>
    /\ raised' = TRUE
    /\ pc' = "failed"
    /\ UNCHANGED <<df, call, report, flagged, out, outIsNew, ret, kpis, stores>>

NextLoad == ComputeKpisTask \/ LoadToPostgresTask \/ LoadToPostgresFails

SpecLoad == InitLoad /\ [][NextLoad]_vars

\* C28: when load_to_postgres has run, every KPI table among
\* airline_average, seasonal_variation and popular_routes that compute_kpis
\* produced with rows is in its PostgreSQL table, whether or not another KPI
\* of the run is empty or missing from the mapping.
C28_NonEmptyKpisWritten ==
    pc = "loaded" =>
        \A i \in DOMAIN SaveOrder :
            (SaveOrder[i] \in DOMAIN kpis /\ kpis[SaveOrder[i]] # <<>>) =>
                postgres[KpiTable(SaveOrder[i])] = kpis[SaveOrder[i]]


\* df is a dataset as clean_and_enrich leaves it: every KPI column is there
\* and airline, source and destination are texts in every row
EnrichedDataset ==
    /\ DOMAIN KpiRow \subseteq df.cols
    /\ \A i \in Index(df) : \A c \in string_cols : ~IsNull(df.rows[i][c])

\* the sum of one column of a KPI table
ColumnSum(f, col) == SumOver(Index(f), [i \in Index(f) |-> f.rows[i][col].n])

\* C29: the KPI tables of one run count the same bookings: with top_n not
\* below the number of distinct routes, the booking_count of popular_routes
\* sums to the number of rows of the enriched dataset and to the sum of
\* total_bookings of the booking_count table, rows with a missing total_fare
\* included.
C29_KpisCountSameBookings ==
    (Returned("compute_all_kpis") /\ EnrichedDataset
        /\ call.top_routes >= Cardinality(RoutesOf(df))) =>
        /\ ColumnSum(kpis.popular_routes, "booking_count") = NRows(df)
        /\ ColumnSum(kpis.popular_routes, "booking_count")
              = ColumnSum(kpis.booking_count, "total_bookings")

=============================================================================
